---- MODULE Spec2Model ----
(***************************************************************************)
(* A model of the register-manual text parser (src/l1_pdf_analysis.py) and *)
(* of the bit-range normalizers of the later stages (src/l2_csv_optimize.py *)
(* and src/l3_cpp_generator.py).                                            *)
(*                                                                          *)
(* Text is modelled character by character: a line is a TLA+ string, and    *)
(* every regular expression of the source is modelled by a scanner that     *)
(* walks the characters the way the expression does (greedy quantifiers,    *)
(* backtracking where the expression can backtrack).  The input alphabet is *)
(* printable ASCII with the space as the only whitespace character, which   *)
(* is what clean_line leaves inside a line.                                 *)
(***************************************************************************)
EXTENDS Integers, Sequences, FiniteSets, TLC

VARIABLES
    pc,                \* the stage of the pipeline the run is in
    lines,             \* the line list handed to the stage
    i,                 \* the line cursor of the scanning loop
    in_register_mode,  \* parse_register_tables: inside a register summary table
    in_attr_mode,      \* parse_attribute_tables: inside an attributes table
    current_table,     \* the most recent heading line ("" models None)
    current_reg_name,  \* parse_attribute_tables: register named by the heading
    pending_addr,      \* parse_register_tables: the PendingAddressBuffer
    rows,              \* the row list built so far
    ghost,             \* the parts the input was assembled from (never read by the code)
    log,               \* history: per loop iteration, the branch taken and the rows it appended
    result,            \* the value returned by the function under study
    cleaned_lines,     \* clean_pdf_text: the lines kept by the first pass
    pass2_lines,       \* clean_pdf_text: the lines after the second pass
    final_lines,       \* clean_pdf_text: the lines after the third pass
    pass4_lines        \* clean_pdf_text: the lines written to the output file

normvars == <<cleaned_lines, pass2_lines, final_lines, pass4_lines>>

vars == <<pc, lines, i, in_register_mode, in_attr_mode, current_table,
          current_reg_name, pending_addr, rows, ghost, log, result,
          cleaned_lines, pass2_lines, final_lines, pass4_lines>>

\* clean_pdf_text has not run
NormIdle ==
    cleaned_lines = <<>> /\ pass2_lines = <<>> /\ final_lines = <<>> /\ pass4_lines = <<>>

(***************************************************************************)
(* Characters and strings                                                  *)
(***************************************************************************)
Ch(s, k) == IF k >= 1 /\ k <= Len(s) THEN SubSeq(s, k, k) ELSE ""

Digits == {"0", "1", "2", "3", "4", "5", "6", "7", "8", "9"}
LowerLetters == {"a", "b", "c", "d", "e", "f", "g", "h", "i", "j", "k", "l", "m",
                 "n", "o", "p", "q", "r", "s", "t", "u", "v", "w", "x", "y", "z"}
UpperLetters == {"A", "B", "C", "D", "E", "F", "G", "H", "I", "J", "K", "L", "M",
                 "N", "O", "P", "Q", "R", "S", "T", "U", "V", "W", "X", "Y", "Z"}
UpperSeq == <<"A", "B", "C", "D", "E", "F", "G", "H", "I", "J", "K", "L", "M",
              "N", "O", "P", "Q", "R", "S", "T", "U", "V", "W", "X", "Y", "Z">>
LowerSeq == <<"a", "b", "c", "d", "e", "f", "g", "h", "i", "j", "k", "l", "m",
              "n", "o", "p", "q", "r", "s", "t", "u", "v", "w", "x", "y", "z">>

IsDigit(c) == c \in Digits
IsHexDigit(c) == c \in Digits \cup {"a", "b", "c", "d", "e", "f", "A", "B", "C", "D", "E", "F"}
IsAlpha(c) == c \in LowerLetters \cup UpperLetters
IsAlphaU(c) == IsAlpha(c) \/ c = "_"          \* [A-Za-z_]
IsWord(c) == IsAlpha(c) \/ IsDigit(c) \/ c = "_"   \* \w
IsSpace(c) == c = " " \/ c = "\n"              \* \s
IsNonSpace(c) == c # "" /\ ~IsSpace(c)         \* \S
IsDigitOrHyphen(c) == IsDigit(c) \/ c = "-"    \* [\d-]

\* membership of a character in a named character class
InClass(c, class) ==
    CASE class = "space" -> IsSpace(c)
      [] class = "nonspace" -> IsNonSpace(c)
      [] class = "digit" -> IsDigit(c)
      [] class = "hex" -> IsHexDigit(c)
      [] class = "word" -> IsWord(c)
      [] class = "digit_hyphen" -> IsDigitOrHyphen(c)
      [] class = "bit" -> c \in {"0", "1"}
      [] class = "digit_colon" -> IsDigit(c) \/ c = ":"
      [] class = "lower_underscore" -> c \in LowerLetters \/ c = "_"
      [] class = "field" -> IsWord(c) \/ c \in {"#", "{", "}"}

LowerCh(c) ==
    IF c \in UpperLetters
    THEN LowerSeq[CHOOSE k \in 1..26 : UpperSeq[k] = c]
    ELSE c

RECURSIVE Lower(_)
Lower(s) ==
    IF Len(s) <= 1 THEN LowerCh(s)
    ELSE Lower(SubSeq(s, 1, Len(s) \div 2)) \o Lower(SubSeq(s, Len(s) \div 2 + 1, Len(s)))

MinOf(S) == CHOOSE x \in S : \A y \in S : x <= y
MaxOf(S) == CHOOSE x \in S : \A y \in S : x >= y

\* s[p:] and s[:p-1] with 1-based positions
From(s, p) == SubSeq(s, p, Len(s))
Upto(s, p) == SubSeq(s, 1, p)

StartsAt(s, p, pat) == p >= 1 /\ p + Len(pat) - 1 <= Len(s) /\ SubSeq(s, p, p + Len(pat) - 1) = pat
StartsWith(s, pat) == StartsAt(s, 1, pat)
EndsWith(s, pat) == Len(pat) <= Len(s) /\ SubSeq(s, Len(s) - Len(pat) + 1, Len(s)) = pat
Contains(s, pat) == \E k \in 1..(Len(s) - Len(pat) + 1) : StartsAt(s, k, pat)
\* str.find: the first position of pat in s at or after p, 0 when there is none
FindFrom(s, p, pat) ==
    LET hits == {k \in p..(Len(s) - Len(pat) + 1) : StartsAt(s, k, pat)}
    IN IF hits = {} THEN 0 ELSE MinOf(hits)

\* the end (exclusive) of the longest run of characters satisfying P that starts at p
SpanEnd(s, p, class) ==
    LET bad == {q \in p..Len(s) : ~InClass(Ch(s, q), class)}
    IN IF bad = {} THEN Len(s) + 1 ELSE MinOf(bad)

AllChars(s, class) == \A k \in 1..Len(s) : InClass(Ch(s, k), class)

\* str.strip(), str.lstrip(), str.rstrip() on the space character
LStrip(s) == From(s, SpanEnd(s, 1, "space"))
RStrip(s) ==
    LET keep == {q \in 1..Len(s) : ~IsSpace(Ch(s, q))}
    IN IF keep = {} THEN "" ELSE Upto(s, MaxOf(keep))
Strip(s) == RStrip(LStrip(s))

\* str.strip(chars) for a set of characters
StripSet(s, cs) ==
    LET keep == {q \in 1..Len(s) : Ch(s, q) \notin cs}
    IN IF keep = {} THEN "" ELSE SubSeq(s, MinOf(keep), MaxOf(keep))

\* name.strip('"').strip()
StripQuotes(s) == Strip(StripSet(s, {"\""}))

\* str.split(): the whitespace-separated parts, in order
RECURSIVE SplitWs(_)
SplitWs(s) ==
    LET b == SpanEnd(s, 1, "space")
        e == SpanEnd(s, b, "nonspace")
    IN IF b > Len(s) THEN <<>> ELSE <<SubSeq(s, b, e - 1)>> \o SplitWs(From(s, e))

\* sep.join(parts)
RECURSIVE Join(_, _)
Join(parts, sep) ==
    IF parts = <<>> THEN ""
    ELSE IF Len(parts) = 1 THEN parts[1]
    ELSE parts[1] \o sep \o Join(Tail(parts), sep)

\* re.sub(r'\s+', ' ', s.strip())
CollapseWs(s) == Join(SplitWs(s), " ")

\* \b at position p (between s[p-1] and s[p])
WordBoundary(s, p) == IsWord(Ch(s, p - 1)) # IsWord(Ch(s, p))

\* int(s) for a decimal digit string
DigitVal(c) == CHOOSE d \in 0..9 : Ch("0123456789", d + 1) = c
RECURSIVE DecVal(_)
DecVal(s) == IF s = "" THEN 0 ELSE 10 * DecVal(Upto(s, Len(s) - 1)) + DigitVal(Ch(s, Len(s)))

\* str(n) for n >= 0
RECURSIVE DecStr(_)
DecStr(n) == IF n < 10 THEN Ch("0123456789", n + 1)
             ELSE DecStr(n \div 10) \o Ch("0123456789", (n % 10) + 1)

(***************************************************************************)
(* Token classes and the module-level regular expressions                  *)
(***************************************************************************)
TYPE_TOKENS ==
    {"RO", "RW", "WO", "R/W", "R/W1C", "R/W1S", "R/W1P", "R/WC", "R/W0C", "R/W0S", "R/W0P",
     "R/W0", "R/W1", "R/WS", "R/WP", "R/C", "R/S", "R0", "W1C", "W1S", "W1P", "RWL"}

\* sorted(TYPE_TOKENS, key=len, reverse=True); the order among tokens of one
\* length is the set's iteration order, which no use of the list depends on
SORTED_TYPE_TOKENS ==
    <<"R/W1C", "R/W1S", "R/W1P", "R/W0C", "R/W0S", "R/W0P",
      "R/WC", "R/W0", "R/W1", "R/WS", "R/WP",
      "R/W", "R/C", "R/S", "W1C", "W1S", "W1P", "RWL",
      "RO", "RW", "WO", "R0">>

MIN_NAME_LENGTH == 3
LONG_NAME_THRESHOLD == 10
MAX_NAME_LENGTH == 120

HEADER_LABELS == {"offset", "name", "type", "description", "reset", "bits"}

RESERVED_PREFIX == "Reserved"

\* the en dash of the source's set is outside the model's alphabet
ADDR_SEPARATORS == {":", "-", ",", ";"}

BAD_NAME_PREFIXES ==
    {"reset value", "reset values", "see individual bit resets",
     "attributes", "attribute", "bits", "name", "description", "type", "offset",
     "usage constraints", "usage constraint", "non-confidential"}

OWNED_PREFIX == "This register is owned in the Non-secure space"

EXPLICIT_BOILERPLATE_STRINGS ==
    {"This register is owned in the Non-secure space and is accessible using Non-secure, Secure,",
     "This register is owned in the Non-secure space and is accessible using Non-secure, Secure",
     "This register is owned in the Non-secure space",
     "This register is accessible using Non-secure, Secure,",
     "This register is accessible using Non-secure, Secure",
     "Root, and Realm transactions.",
     "Root, and Realm transactions",
     "Bit descriptions"}

PAGE_BREAK_PREFIX == "__PAGE_BREAK_"

\* (?:0x|16'h) at p: the position of the first hex digit, 0 when absent
AddrDigits(s, p) ==
    IF StartsAt(s, p, "0x") THEN p + 2
    ELSE IF StartsAt(s, p, "16'h") THEN p + 4
    ELSE 0

\* (?:0x|16'h)[0-9A-Fa-f]+ at p: the end (exclusive) of the greedy match, 0 when none
AddrEnd(s, p) ==
    LET d == AddrDigits(s, p)
    IN IF d = 0 \/ ~IsHexDigit(Ch(s, d)) THEN 0 ELSE SpanEnd(s, d, "hex")

\* every end the same expression can be made to stop at by backtracking
AddrEnds(s, p) ==
    LET UpTo(e) == IF e = 0 THEN {} ELSE (AddrDigits(s, p) + 1)..e
    IN UpTo(AddrEnd(s, p))

\* \d+ at p: end of the greedy match, 0 when none
DigitsEnd(s, p) == IF IsDigit(Ch(s, p)) THEN SpanEnd(s, p, "digit") ELSE 0

\* \{[\d-]+\} at p: end of the match, 0 when none
BraceEnd(s, p) ==
    LET e == SpanEnd(s, p + 1, "digit_hyphen")
    IN IF Ch(s, p) = "{" /\ e > p + 1 /\ Ch(s, e) = "}" THEN e + 1 ELSE 0

\* \{\d+-\d+\} at p: end of the match, 0 when none
StrictBraceEnd(s, p) ==
    LET Close(b) == IF Ch(s, p) = "{" /\ b # 0 /\ Ch(s, b) = "}" THEN b + 1 ELSE 0
        Second(a) == Close(IF a # 0 /\ Ch(s, a) = "-" THEN DigitsEnd(s, a + 1) ELSE 0)
    IN Second(DigitsEnd(s, p + 1))

\* \{\s*\d+(?:\s*-\s*\d+)?\s*\} at p: end of the match, 0 when none
RangeTokenEnd(s, p) ==
    LET Close(a, c) == IF Ch(s, p) = "{" /\ a # 0 /\ Ch(s, c) = "}" THEN c + 1 ELSE 0
        AfterSecond(a, h, b) == Close(a, IF b # 0 THEN SpanEnd(s, b, "space") ELSE h)
        AfterFirst(a, h) ==
            AfterSecond(a, h, IF h # 0 /\ Ch(s, h) = "-"
                              THEN DigitsEnd(s, SpanEnd(s, h + 1, "space")) ELSE 0)
        First(a) == AfterFirst(a, IF a = 0 THEN 0 ELSE SpanEnd(s, a, "space"))
    IN First(DigitsEnd(s, SpanEnd(s, p + 1, "space")))

\* heading_re = ^Table\s+\d+-\d+:\s+.*$  (IGNORECASE)
is_heading(s) ==
    /\ StartsWith(Lower(s), "table")
    /\ \E a \in {SpanEnd(s, 6, "space")} :
         /\ a > 6
         /\ \E b \in {DigitsEnd(s, a)} :
              /\ b # 0
              /\ Ch(s, b) = "-"
              /\ \E c \in {DigitsEnd(s, b + 1)} :
                   c # 0 /\ Ch(s, c) = ":" /\ IsSpace(Ch(s, c + 1))

\* section_re = ^\d+(\.\d+)+
is_section_heading(s) ==
    \E a \in {DigitsEnd(s, 1)} : a # 0 /\ Ch(s, a) = "." /\ IsDigit(Ch(s, a + 1))

is_type_token(s) == s \in TYPE_TOKENS

\* bits_re = ^\[\d+(?::\d+)?\]$
is_bits_token(s) ==
    \E a \in {DigitsEnd(s, 2)} :
        /\ Ch(s, 1) = "[" /\ a # 0
        /\ \E b \in {IF Ch(s, a) = ":" THEN DigitsEnd(s, a + 1) ELSE a} :
             b # 0 /\ Ch(s, b) = "]" /\ b = Len(s)

\* offset_re = ^(?:0x|16'h)[0-9A-Fa-f]+$
is_offset_token(s) == AddrEnd(s, 1) = Len(s) + 1

\* range_re = ^\{\s*\d+(?:\s*-\s*\d+)?\s*\}$
is_range_token(s) == RangeTokenEnd(s, 1) = Len(s) + 1

is_addr_sep(s) == s \in ADDR_SEPARATORS

\* the ends of one addr_token_re match at p
AddrTokenEnds(s, p) ==
    AddrEnds(s, p)
    \cup ({RangeTokenEnd(s, p)} \ {0})
    \cup (IF Ch(s, p) \in {":", ",", "-"} THEN {p + 1} ELSE {})

\* (?:\s*TOKEN\s*)*$ from p
RECURSIVE AddrTokensToEnd(_, _)
AddrTokensToEnd(s, p) ==
    \E q \in {SpanEnd(s, p, "space")} :
        q > Len(s) \/ \E e \in AddrTokenEnds(s, q) : AddrTokensToEnd(s, e)

\* addr_line_re = ^(?:\s*TOKEN\s*)+$
is_addr_line(s) ==
    \E e \in AddrTokenEnds(s, SpanEnd(s, 1, "space")) : AddrTokensToEnd(s, e)

is_addr_token(s) == is_offset_token(s) \/ is_range_token(s) \/ is_addr_sep(s)

\* the line tests of the accumulation branch and of the description loops
IsAddrContent(s) == is_addr_line(s) \/ is_offset_token(s) \/ is_range_token(s) \/ is_addr_token(s)

\* literal words separated by \s+ at p of the lower-cased text: end, 0 when none
RECURSIVE WordsEnd(_, _, _)
WordsEnd(low, p, ws) ==
    IF ~StartsAt(low, p, ws[1]) THEN 0
    ELSE IF Len(ws) = 1 THEN p + Len(ws[1])
    ELSE LET After(q, r) == IF r = q THEN 0 ELSE WordsEnd(low, r, Tail(ws))
         IN After(p + Len(ws[1]), SpanEnd(low, p + Len(ws[1]), "space"))

\* RESET_NOISE_RE.search(s)
RESET_NOISE_RE(s) ==
    \E low \in {Lower(s)} : \E k \in 1..Len(s) :
        /\ WordBoundary(low, k)
        /\ \E ws \in {<<"reset", "value">>, <<"reset", "values">>,
                      <<"see", "individual", "bit", "reset">>,
                      <<"see", "individual", "bit", "resets">>} :
             \E e \in {WordsEnd(low, k, ws)} : e # 0 /\ WordBoundary(low, e)

\* the alternatives of document_boilerplate_re that the alphabet can spell
\* (the two with the registered sign cannot match an ASCII line)
DocBoilerplateEndAt(low, k) ==
    LET fixed == {WordsEnd(low, k, ws) : ws \in
                    {<<"non-confidential">>, <<"technical", "reference", "manual">>,
                     <<"document", "id">>, <<"programmer", "model">>,
                     <<"programmers", "model">>, <<"cmns3">>, <<"cmn", "s3">>,
                     <<"coherent", "mesh", "network">>}}
        iss == WordsEnd(low, k, <<"issue">>)
        isd == IF iss # 0 /\ SpanEnd(low, iss, "space") > iss
               THEN DigitsEnd(low, SpanEnd(low, iss, "space")) ELSE 0
    IN {e \in fixed \cup {isd} : e # 0 /\ WordBoundary(low, e)}

\* the start of the first document_boilerplate_re match in s, 0 when none
DocBoilerplateStart(s) ==
    LET low == Lower(s)
        hits == {k \in 1..Len(s) : WordBoundary(low, k) /\ DocBoilerplateEndAt(low, k) # {}}
    IN IF hits = {} THEN 0 ELSE MinOf(hits)

document_boilerplate_re(s) == DocBoilerplateStart(s) # 0

\* boilerplate_sentence_re.match(s)
boilerplate_sentence_re(s) ==
    LET low == Lower(s)
        f == WordsEnd(low, 1, <<"figure">>)
    IN \/ \E ws \in {<<"this", "register", "is", "owned">>,
                     <<"this", "register", "is", "accessible">>,
                     <<"usage", "constraint">>, <<"non-secure", "space">>,
                     <<"secure", "space">>,
                     <<"the", "following", "image", "shows">>} : WordsEnd(low, 1, ws) # 0
       \/ (f # 0 /\ SpanEnd(low, f, "space") > f /\ IsDigit(Ch(low, SpanEnd(low, f, "space"))))

\* re.search(r'\. [A-Z]', s)
HasSentenceBreak(s) ==
    \E k \in 1..Len(s) : StartsAt(s, k, ". ") /\ Ch(s, k + 2) \in UpperLetters

HasBadNamePrefix(s) == \E p \in BAD_NAME_PREFIXES : StartsWith(Lower(s), p)

\* RESERVED_CONCATENATION_PATTERN = ^\d+.*[a-zA-Z] on the text after "Reserved"
is_reserved_concatenation_artifact(name) ==
    LET suffix == From(name, Len(RESERVED_PREFIX) + 1)
    IN /\ StartsWith(name, RESERVED_PREFIX)
       /\ Len(name) > Len(RESERVED_PREFIX)
       /\ IsDigit(Ch(suffix, 1))
       /\ \E k \in 2..Len(suffix) : IsAlpha(Ch(suffix, k))

is_probable_name(s) ==
    LET s_stripped == StripQuotes(s)
        low == Lower(s)
    IN IF s = "" THEN FALSE
       ELSE IF s_stripped \in EXPLICIT_BOILERPLATE_STRINGS THEN FALSE
       ELSE IF StartsWith(s_stripped, OWNED_PREFIX) THEN FALSE
       ELSE IF low \in HEADER_LABELS THEN FALSE
       ELSE IF HasBadNamePrefix(s) THEN FALSE
       ELSE IF RESET_NOISE_RE(s) THEN FALSE
       ELSE IF is_addr_line(s) \/ is_addr_token(s) \/ is_heading(s)
               \/ is_section_heading(s) \/ is_type_token(s) THEN FALSE
       ELSE IF StartsWith(s, PAGE_BREAK_PREFIX) THEN FALSE
       ELSE IF document_boilerplate_re(s) THEN FALSE
       ELSE IF boilerplate_sentence_re(s) THEN FALSE
       ELSE IF Len(s) > MAX_NAME_LENGTH THEN FALSE
       ELSE IF is_reserved_concatenation_artifact(s) THEN FALSE
       ELSE IF s = "Arm" THEN FALSE
       ELSE IF HasSentenceBreak(s) THEN FALSE
       ELSE IF s = "ReservedReserved" THEN TRUE
       ELSE IF s \in {"+", "*", "/", "%"} THEN TRUE
       ELSE IF AllChars(s, "digit_hyphen") THEN FALSE
       ELSE \E k \in 1..Len(s) : IsAlphaU(Ch(s, k))

is_name_continuation(s) ==
    IF s = "" \/ StartsWith(s, PAGE_BREAK_PREFIX) THEN FALSE
    ELSE IF is_type_token(s) \/ is_heading(s) \/ is_section_heading(s) THEN FALSE
    ELSE IF Lower(s) \in HEADER_LABELS \/ HasBadNamePrefix(s) THEN FALSE
    ELSE IF RESET_NOISE_RE(s) THEN FALSE
    ELSE AllChars(s, "word")

\* re.sub(r'\s*C\s*', rep, s) for a one-character C
RECURSIVE SubAround(_, _, _)
SubAround(s, c, rep) ==
    LET q == FindFrom(s, 1, c)
        sp == {k \in 1..q : \A m \in k..(q - 1) : IsSpace(Ch(s, m))}
    IN IF q = 0 THEN s
       ELSE Upto(s, MinOf(sp) - 1) \o rep \o SubAround(From(s, SpanEnd(s, q + 1, "space")), c, rep)

\* re.sub(r'\s+', ' ', s): every run of spaces becomes one space
RECURSIVE SquashWs(_)
SquashWs(s) ==
    LET q == FindFrom(s, 1, " ")
    IN IF q = 0 THEN s
       ELSE Upto(s, q) \o SquashWs(From(s, SpanEnd(s, q, "space")))

normalize_addr(expr) ==
    SquashWs(SubAround(SubAround(SquashWs(Strip(expr)), ":", " : "), ",", ", "))

(***************************************************************************)
(* parse_register_tables: the row shapes                                   *)
(***************************************************************************)
NoMatch == [ok |-> FALSE, offset |-> "", name |-> "", type |-> "", rest |-> ""]

\* (\S+)\s+(\S+)?\s*(.*)? at q, after group 1 has ended at g; "" models an
\* optional group that did not take part
TailAt(s, g, q) ==
    LET Groups(r, t, u) ==
            IF r > q /\ t > r
            THEN [ok |-> TRUE, offset |-> Upto(s, g - 1), name |-> SubSeq(s, q, r - 1),
                  type |-> SubSeq(s, t, u - 1), rest |-> From(s, SpanEnd(s, u, "space"))]
            ELSE NoMatch
        AfterGap(r, t) == Groups(r, t, SpanEnd(s, t, "nonspace"))
        AfterName(r) == AfterGap(r, SpanEnd(s, r, "space"))
    IN AfterName(SpanEnd(s, q, "nonspace"))

\* group 1 ended at g, then \s*(\S+)\s+(\S+)?\s*(.*)?
TailLoose(s, g) == TailAt(s, g, SpanEnd(s, g, "space"))

\* group 1 ended at g, then \s+(\S+)\s+(\S+)?\s*(.*)?
TailSpaced(s, g) ==
    LET Name(q) == IF q > g THEN TailAt(s, g, q) ELSE NoMatch
    IN Name(SpanEnd(s, g, "space"))

\* ADDR\s*:\s*ADDR at p: [end, dstart] of the greedy match (dstart: the first
\* hex digit of the second address), end = 0 when none
AddrRangeAt(s, p) ==
    LET Range(b, e) == [end |-> e, dstart |-> IF e = 0 THEN 0 ELSE AddrDigits(s, b)]
        Second(b) == Range(b, IF b = 0 THEN 0 ELSE AddrEnd(s, b))
        Colon(c) == Second(IF c # 0 /\ Ch(s, c) = ":" THEN SpanEnd(s, c + 1, "space") ELSE 0)
        First(a) == Colon(IF a = 0 THEN 0 ELSE SpanEnd(s, a, "space"))
    IN First(AddrEnd(s, p))

\* \{[\d-]+\}\s+ADDR\s*:\s*ADDR at p (strict: \{\d+-\d+\} for the index)
SegmentAt(s, p, strict) ==
    LET Addrs(b, w) == IF b = 0 \/ w = b THEN [end |-> 0, dstart |-> 0] ELSE AddrRangeAt(s, w)
        Index(b) == Addrs(b, IF b = 0 THEN 0 ELSE SpanEnd(s, b, "space"))
    IN Index(IF strict THEN StrictBraceEnd(s, p) ELSE BraceEnd(s, p))

\* the segments that follow a segment ending at e: (?:\s*;\s*SEGMENT)*
RECURSIVE MoreSegments(_, _)
MoreSegments(s, e) ==
    LET Rest(n) == IF n.end = 0 THEN <<>> ELSE <<n>> \o MoreSegments(s, n.end)
        Semicolon(c) ==
            Rest(IF Ch(s, c) = ";" THEN SegmentAt(s, SpanEnd(s, c + 1, "space"), FALSE)
                 ELSE [end |-> 0, dstart |-> 0])
    IN Semicolon(SpanEnd(s, e, "space"))

\* the ends a segment's last address can be cut back to, longest first
RECURSIVE CutBacks(_, _)
CutBacks(e, dstart) == IF e <= dstart THEN <<>> ELSE <<e>> \o CutBacks(e - 1, dstart)

\* where group 1 of the multi-segment expression can end, in the order the
\* matcher tries them: most repetitions first, longest last address first
RECURSIVE MultiEnds(_)
MultiEnds(segs) ==
    IF Len(segs) < 2 THEN <<>>
    ELSE CutBacks(segs[Len(segs)].end, segs[Len(segs)].dstart)
         \o MultiEnds(SubSeq(segs, 1, Len(segs) - 1))

\* the first end of group 1 after which the rest of the expression matches
RECURSIVE FirstTail(_, _)
FirstTail(s, ends) ==
    LET Try(m) == IF m.ok THEN m ELSE FirstTail(s, Tail(ends))
    IN IF ends = <<>> THEN NoMatch ELSE Try(TailLoose(s, ends[1]))

multi_segment_match(s) ==
    LET Segments(first) ==
            IF first.end = 0 THEN NoMatch
            ELSE FirstTail(s, MultiEnds(<<first>> \o MoreSegments(s, first.end)))
    IN Segments(SegmentAt(s, 1, FALSE))

array_match(s) ==
    LET Tail1(seg) == IF seg.end = 0 THEN NoMatch ELSE FirstTail(s, CutBacks(seg.end, seg.dstart))
    IN Tail1(SegmentAt(s, 1, TRUE))

range_match(s) ==
    LET Tail1(r) == IF r.end = 0 THEN NoMatch ELSE TailSpaced(s, r.end)
    IN Tail1(AddrRangeAt(s, 1))

\* ADDR\s*\+\s*ADDR
offset_plus_match(s) ==
    LET Tail1(b) == IF b = 0 THEN NoMatch ELSE TailSpaced(s, b)
        Plus(c) ==
            Tail1(IF c # 0 /\ Ch(s, c) = "+" THEN AddrEnd(s, SpanEnd(s, c + 1, "space")) ELSE 0)
        First(a) == Plus(IF a = 0 THEN 0 ELSE SpanEnd(s, a, "space"))
    IN First(AddrEnd(s, 1))

simple_match(s) ==
    LET Tail1(a) == IF a = 0 THEN NoMatch ELSE TailSpaced(s, a)
    IN Tail1(AddrEnd(s, 1))

\* [A-Za-z_][A-Za-z0-9_]*(?:[+-][A-Za-z0-9_]+)* matching all of t
RECURSIVE IsIdentChain(_, _)
IsIdentChain(t, p) ==
    \E e \in {SpanEnd(t, p, "word")} :
        \/ e > Len(t)
        \/ Ch(t, e) \in {"+", "-"} /\ IsWord(Ch(t, e + 1)) /\ IsIdentChain(t, e + 1)

\* ^(ADDR)\s+(identifier)$
offset_name_match(s) ==
    LET Name(a, q) ==
            IF a # 0 /\ q > a /\ IsAlphaU(Ch(s, q)) /\ IsIdentChain(From(s, q), 1)
            THEN [ok |-> TRUE, offset |-> Upto(s, a - 1), name |-> From(s, q),
                  type |-> "", rest |-> ""]
            ELSE NoMatch
        First(a) == Name(a, IF a = 0 THEN 0 ELSE SpanEnd(s, a, "space"))
    IN First(AddrEnd(s, 1))

\* the type and description columns of shapes 1-5: an unrecognized type
\* token goes back in front of the description
ShapeType(m) == IF m.type # "" /\ is_type_token(Strip(m.type)) THEN Strip(m.type) ELSE "-"
ShapeDesc(m) ==
    LET desc == IF Strip(m.rest) # "" THEN Strip(m.rest) ELSE m.name
        \* group(4) is falsy exactly when it is empty; a blank one cannot
        \* follow the greedy \s* before it
    IN IF m.type # "" /\ m.type # "-" /\ ~is_type_token(Strip(m.type))
       THEN m.type \o " " \o desc ELSE desc

Row(table, offset, name, type, desc) ==
    [table |-> table, offset |-> offset, name |-> name, type |-> type, description |-> desc]

\* re.finditer(r'\{(\d+)-(\d+)\}', offset_str): the (start, end) pairs in order
RECURSIVE parse_array_indices(_)
parse_array_indices(offset_str) ==
    LET Pair(k, a, e) ==
            <<<<DecVal(SubSeq(offset_str, k + 1, a - 1)), DecVal(SubSeq(offset_str, a + 1, e - 2))>>>>
            \o parse_array_indices(From(offset_str, e))
        First(hits) ==
            IF hits = {} THEN <<>>
            ELSE Pair(MinOf(hits), DigitsEnd(offset_str, MinOf(hits) + 1),
                      StrictBraceEnd(offset_str, MinOf(hits)))
    IN First({k \in 1..Len(offset_str) : StrictBraceEnd(offset_str, k) # 0})

\* str.split(sep) for a one-character separator
RECURSIVE SplitOn(_, _)
SplitOn(s, sep) ==
    LET q == FindFrom(s, 1, sep)
    IN IF q = 0 THEN <<s>> ELSE <<Upto(s, q - 1)>> \o SplitOn(From(s, q + 1), sep)

\* segment_index is 0-based in the source and 1-based here
extract_segment_offset(offset_str, segment_index) ==
    LET segments == SplitOn(offset_str, ";")
    IN IF segment_index <= Len(segments) THEN Strip(segments[segment_index]) ELSE offset_str

\* re.sub(r'\d+-\d+$', '', base_name)
StripRangeSuffix(base_name) ==
    LET n == Len(base_name)
        d2 == {k \in 1..n : \A m \in k..n : IsDigit(Ch(base_name, m))}
        h == IF d2 = {} THEN 0 ELSE MinOf(d2) - 1
        d1 == {k \in 1..(h - 1) : \A m \in k..(h - 1) : IsDigit(Ch(base_name, m))}
    IN IF d2 # {} /\ h >= 2 /\ Ch(base_name, h) = "-" /\ d1 # {}
       THEN Upto(base_name, MinOf(d1) - 1)
       ELSE base_name

generate_segmented_register_name(base_name, start_idx, end_idx) ==
    StripRangeSuffix(base_name) \o DecStr(start_idx) \o "-" \o DecStr(end_idx)

\* the rows of a line of the multi-segment shape
MultiSegmentRows(table, m) ==
    LET Rows(indices) ==
            IF Len(indices) > 1
            THEN [idx \in 1..Len(indices) |->
                     Row(table, extract_segment_offset(m.offset, idx),
                         generate_segmented_register_name(m.name, indices[idx][1], indices[idx][2]),
                         ShapeType(m), ShapeDesc(m))]
            ELSE <<Row(table, m.offset, m.name, ShapeType(m), ShapeDesc(m))>>
    IN Rows(parse_array_indices(m.offset))

(***************************************************************************)
(* parse_register_tables: the lookahead loops of shapes 6 and 7            *)
(***************************************************************************)
IsSkippedLabel(t) == StartsWith(t, PAGE_BREAK_PREFIX) \/ Lower(t) \in HEADER_LABELS

\* document_boilerplate_re.split(t)[0].strip()
DocCleanPart(t) == Strip(Upto(t, DocBoilerplateStart(t) - 1))

\* document_boilerplate_re.sub('', s)
RECURSIVE DocBoilerplateSub(_)
DocBoilerplateSub(s) ==
    LET Cut(k) ==
            IF k = 0 THEN s
            ELSE Upto(s, k - 1)
                 \o DocBoilerplateSub(From(s, CHOOSE x \in DocBoilerplateEndAt(Lower(s), k) : TRUE))
    IN Cut(DocBoilerplateStart(s))

\* the description loop: from line j on, collect description lines until a
\* terminating line; returns the cursor and the collected parts
RECURSIVE DescScan(_, _, _)
DescScan(ls, j, parts) ==
    IF j > Len(ls) THEN [i |-> j, parts |-> parts]
    ELSE LET t == ls[j] IN
         IF IsSkippedLabel(t) THEN DescScan(ls, j + 1, parts)
         ELSE IF is_heading(t) \/ is_section_heading(t) \/ is_bits_token(t)
              THEN [i |-> j, parts |-> parts]
         ELSE IF IsAddrContent(t) THEN [i |-> j, parts |-> parts]
         ELSE IF HasBadNamePrefix(t) \/ RESET_NOISE_RE(t) THEN [i |-> j, parts |-> parts]
         ELSE IF boilerplate_sentence_re(t) THEN DescScan(ls, j + 1, parts)
         ELSE IF document_boilerplate_re(t)
              THEN [i |-> j, parts |-> parts \o SelectSeq(<<DocCleanPart(t)>>, LAMBDA c : c # "")]
         ELSE DescScan(ls, j + 1, Append(parts, t))

\* the wrapped-name loop: append continuation fragments without a separator
RECURSIVE NameScan(_, _, _)
NameScan(ls, j, name) ==
    IF j <= Len(ls) /\ is_name_continuation(ls[j])
    THEN NameScan(ls, j + 1, name \o ls[j])
    ELSE [i |-> j, name |-> name]

LOOKAHEAD_LINES == 5

\* the type lookahead: lines j .. limit, limit being the last line looked at
RECURSIVE TypeScan(_, _, _)
TypeScan(ls, j, limit) ==
    IF j > limit THEN [i |-> j, typ |-> ""]
    ELSE LET t == ls[j] IN
         IF IsSkippedLabel(t) THEN TypeScan(ls, j + 1, limit)
         ELSE IF is_type_token(t) THEN [i |-> j + 1, typ |-> t]
         ELSE IF IsAddrContent(t) \/ is_heading(t) \/ is_section_heading(t)
              THEN [i |-> j, typ |-> ""]
         ELSE IF HasBadNamePrefix(t) \/ RESET_NOISE_RE(t) THEN [i |-> j, typ |-> ""]
         ELSE TypeScan(ls, j + 1, limit)

IsBoilerplateName(name) ==
    \/ boilerplate_sentence_re(name)
    \/ Len(name) > MAX_NAME_LENGTH
    \/ HasSentenceBreak(name)
    \/ StripQuotes(name) \in EXPLICIT_BOILERPLATE_STRINGS
    \/ StartsWith(StripQuotes(name), OWNED_PREFIX)

DESC_BOILERPLATE_MIN == 50

\* "mostly boilerplate" descriptions are replaced by "-"
FinalDescription(d) ==
    IF /\ d # ""
       /\ Len(d) > DESC_BOILERPLATE_MIN
       /\ \/ boilerplate_sentence_re(d)
          \/ (document_boilerplate_re(d) /\ 5 * Len(Strip(DocBoilerplateSub(d))) < Len(d))
    THEN "-" ELSE d

\* shape 6: [i, emitted] for an "ADDR name" line at cursor k
OffsetNameStep(ls, k, table) ==
    LET Emit(m, typ, d) ==
            [i |-> d.i,
             emitted |-> <<Row(table, m.offset, m.name,
                               IF typ # "" THEN Strip(typ) ELSE "-",
                               IF d.parts # <<>> THEN Strip(Join(d.parts, " ")) ELSE m.name)>>]
        Type(m, hasType) ==
            Emit(m, IF hasType THEN ls[k + 1] ELSE "",
                 DescScan(ls, IF hasType THEN k + 2 ELSE k + 1, <<>>))
    IN Type(offset_name_match(ls[k]), k + 1 <= Len(ls) /\ is_type_token(ls[k + 1]))

\* shape 7: [i, emitted] for a plausible name line at cursor k
NameStep(ls, k, table, pending) ==
    LET Emit(n, t, d, final_name) ==
            IF Strip(pending) = "" THEN [i |-> d.i, emitted |-> <<>>]
            ELSE IF IsBoilerplateName(final_name) \/ document_boilerplate_re(final_name)
                 THEN [i |-> d.i, emitted |-> <<>>]
            ELSE [i |-> d.i,
                  emitted |-> <<Row(table, normalize_addr(pending), final_name, Strip(t.typ),
                                    FinalDescription(Strip(Join(d.parts, " "))))>>]
        Description(n, t) == Emit(n, t, DescScan(ls, t.i, <<>>), Strip(n.name))
        Type(n) ==
            IF IsBoilerplateName(n.name) THEN [i |-> n.i, emitted |-> <<>>]
            ELSE Description(n, TypeScan(ls, n.i, IF n.i + LOOKAHEAD_LINES - 1 < Len(ls)
                                                  THEN n.i + LOOKAHEAD_LINES - 1 ELSE Len(ls)))
    IN Type(NameScan(ls, k + 1, ls[k]))

\* ^\s*8\.3\.
IsDetailSection(s) == StartsAt(s, SpanEnd(s, 1, "space"), "8.3.")

\* the branch of the scanning loop that handles line s
Branch(s, in_mode) ==
    IF is_heading(s) THEN "heading"
    ELSE IF ~in_mode THEN "outside"
    ELSE IF IsSkippedLabel(s) THEN "label"
    ELSE IF IsDetailSection(s) THEN "detail_section"
    ELSE IF multi_segment_match(s).ok THEN "multi_segment"
    ELSE IF array_match(s).ok THEN "array"
    ELSE IF range_match(s).ok THEN "range"
    ELSE IF offset_plus_match(s).ok THEN "offset_plus"
    ELSE IF simple_match(s).ok THEN "simple"
    ELSE IF offset_name_match(s).ok THEN "offset_name"
    ELSE IF IsAddrContent(s) THEN "accumulate"
    ELSE IF is_section_heading(s) THEN "section"
    ELSE IF is_probable_name(s) THEN "name"
    ELSE "other"

(***************************************************************************)
(* Artifact repair: split_concatenated_registers, clean_rows               *)
(***************************************************************************)
IsRegNameChar(c) == IsWord(c) \/ c = "-" \/ c = " "    \* [a-zA-Z0-9_\- ]

\* the access token that ends at a word boundary at t ("" when none): the
\* alternation TYPE_TOKENS followed by \b
TokenAt(s, t) ==
    LET fit == {tok \in TYPE_TOKENS : StartsAt(s, t, tok) /\ WordBoundary(s, t + Len(tok))}
    IN IF fit = {} THEN "" ELSE CHOOSE tok \in fit : TRUE

\* register_pattern at k: (0x[0-9A-Fa-f]+)\s+([a-zA-Z_][a-zA-Z0-9_\- ]*?)\s+(TOKENS)\b
RegisterPatternAt(s, k) ==
    LET None == [ok |-> FALSE, start |-> 0, end |-> 0, offset |-> "", name |-> "", type |-> ""]
        Found(a, q, r, t) ==
            [ok |-> TRUE, start |-> k, end |-> t + Len(TokenAt(s, t)),
             offset |-> SubSeq(s, k, a - 1), name |-> SubSeq(s, q, r - 1), type |-> TokenAt(s, t)]
        Lazy(a, q, ends) ==
            IF ends = {} THEN None ELSE Found(a, q, MinOf(ends), SpanEnd(s, MinOf(ends), "space"))
        Name(a, q) ==
            IF q = a \/ ~IsAlphaU(Ch(s, q)) THEN None
            ELSE Lazy(a, q, {r \in (q + 1)..Len(s) :
                                /\ \A m \in (q + 1)..(r - 1) : IsRegNameChar(Ch(s, m))
                                /\ IsSpace(Ch(s, r))
                                /\ TokenAt(s, SpanEnd(s, r, "space")) # ""})
        Offset(a) == IF a = 0 THEN None ELSE Name(a, SpanEnd(s, a, "space"))
    IN Offset(IF StartsAt(s, k, "0x") /\ IsHexDigit(Ch(s, k + 2)) THEN SpanEnd(s, k + 2, "hex") ELSE 0)

\* register_pattern.finditer(desc) from position p on
RECURSIVE RegisterMatches(_, _)
RegisterMatches(s, p) ==
    LET More(m) == <<m>> \o RegisterMatches(s, m.end)
        First(hits) == IF hits = {} THEN <<>> ELSE More(RegisterPatternAt(s, MinOf(hits)))
    IN First({k \in p..Len(s) : RegisterPatternAt(s, k).ok})

\* str.replace(old, new)
RECURSIVE Replace(_, _, _)
Replace(s, old, new) ==
    LET At(q) == IF q = 0 THEN s
                 ELSE Upto(s, q - 1) \o new \o Replace(From(s, q + Len(old)), old, new)
    IN At(FindFrom(s, 1, old))

\* the row an embedded match becomes
EmbeddedRow(row, desc, matches, k) ==
    LET m == matches[k]
        Description(name, reg_desc) ==
            IF StartsWith(reg_desc, name) THEN Strip(From(reg_desc, Len(name) + 1)) ELSE reg_desc
        Emit(name, d) ==
            IF name # "" /\ ~StartsWith(name, "0x")
            THEN <<Row(row.table, m.offset, name, m.type, IF d # "" THEN d ELSE name)>>
            ELSE <<>>
        Until(name, later) ==
            Emit(name, Description(name, Strip(SubSeq(desc, m.end,
                 IF later = {} THEN Len(desc) ELSE matches[MinOf(later)].start - 1))))
    IN Until(Replace(m.name, "_ ", "_"), {n \in 1..Len(matches) : matches[n].start > m.end})

RECURSIVE EmbeddedRows(_, _, _, _)
EmbeddedRows(row, desc, matches, k) ==
    IF k > Len(matches) THEN <<>>
    ELSE EmbeddedRow(row, desc, matches, k) \o EmbeddedRows(row, desc, matches, k + 1)

SplitRow(row) ==
    LET First(clean_desc) ==
            [row EXCEPT !.description = IF clean_desc # "" THEN clean_desc ELSE row.name]
        Split(desc, matches) ==
            IF desc = "" \/ matches = <<>> THEN <<row>>
            ELSE <<First(Strip(Upto(desc, matches[1].start - 1)))>>
                 \o EmbeddedRows(row, desc, matches, 1)
    IN Split(row.description, RegisterMatches(row.description, 1))

RECURSIVE split_concatenated_registers(_)
split_concatenated_registers(rs) ==
    IF rs = <<>> THEN <<>> ELSE SplitRow(Head(rs)) \o split_concatenated_registers(Tail(rs))

\* re.match(r'^[a-z][a-z0-9_]*[a-z0-9]$', s, re.IGNORECASE)
IsSimpleIdentifier(s) ==
    /\ Len(s) >= 2
    /\ IsAlpha(Ch(s, 1))
    /\ AllChars(s, "word")
    /\ Ch(s, Len(s)) # "_"

\* the validation with the minimum length forgotten
SeparationValidWhateverLength(potential_name, token, original_name) ==
    /\ \E k \in 1..Len(potential_name) : IsAlphaU(Ch(potential_name, k))
    /\ \/ IsDigitOrHyphen(Ch(potential_name, Len(potential_name)))
       \/ EndsWith(potential_name, "_")
       \/ Len(potential_name) >= LONG_NAME_THRESHOLD
       \/ IsSimpleIdentifier(potential_name)

is_valid_name_type_separation(potential_name, token, original_name) ==
    IF potential_name = "" THEN FALSE
    ELSE IF ~\E k \in 1..Len(potential_name) : IsAlphaU(Ch(potential_name, k)) THEN FALSE
    ELSE IF Len(potential_name) < MIN_NAME_LENGTH THEN FALSE
    ELSE IF IsDigitOrHyphen(Ch(potential_name, Len(potential_name))) THEN TRUE
    ELSE IF EndsWith(potential_name, "_") THEN TRUE
    ELSE IF Len(potential_name) >= LONG_NAME_THRESHOLD THEN TRUE
    ELSE IsSimpleIdentifier(potential_name)

\* the loop over SORTED_TYPE_TOKENS from index k on
RECURSIVE SeparateConcatenated(_, _)
SeparateConcatenated(name, k) ==
    LET Try(token, potential_name) ==
            IF EndsWith(name, token) /\ is_valid_name_type_separation(potential_name, token, name)
            THEN <<potential_name, token>>
            ELSE SeparateConcatenated(name, k + 1)
    IN IF k > Len(SORTED_TYPE_TOKENS) THEN <<name, "">>
       ELSE Try(SORTED_TYPE_TOKENS[k], Upto(name, Len(name) - Len(SORTED_TYPE_TOKENS[k])))

\* returns <<cleaned_name, extracted_type>>
separate_name_and_type(name) ==
    LET Split(parts) ==
            IF name = "" THEN <<name, "">>
            ELSE IF Len(parts) >= 2 /\ is_type_token(parts[Len(parts)])
                 THEN <<Join(SubSeq(parts, 1, Len(parts) - 1), " "), parts[Len(parts)]>>
            ELSE SeparateConcatenated(name, 1)
    IN Split(SplitWs(name))

clean_reserved_name(name) ==
    IF name = "ReservedReserved" THEN "Reserved"
    ELSE IF name = "RESRES" \/ name = "IMPLIMPLEM" THEN "Reserved"
    ELSE name

\* the tests of clean_rows with the one for Reserved artifacts left out
IsJunkNameButArtifact(name) ==
    \/ Lower(name) \in {"non-confidential", "usage constraints", "usage constraint"}
    \/ document_boilerplate_re(name)
    \/ boilerplate_sentence_re(name)
    \/ StripQuotes(name) \in EXPLICIT_BOILERPLATE_STRINGS
    \/ StartsWith(StripQuotes(name), OWNED_PREFIX)
    \/ Len(name) > MAX_NAME_LENGTH
    \/ HasSentenceBreak(name)

\* the rows clean_rows drops before it repairs anything
IsJunkName(name) ==
    \/ Lower(name) \in {"non-confidential", "usage constraints", "usage constraint"}
    \/ document_boilerplate_re(name)
    \/ boilerplate_sentence_re(name)
    \/ StripQuotes(name) \in EXPLICIT_BOILERPLATE_STRINGS
    \/ StartsWith(StripQuotes(name), OWNED_PREFIX)
    \/ Len(name) > MAX_NAME_LENGTH
    \/ HasSentenceBreak(name)
    \/ is_reserved_concatenation_artifact(name)

\* an empty field left as it is
DashForgotten(v) == v

Dash(v) == IF v = "" THEN "-" ELSE v

ReservedDesc(name, d) ==
    IF name = "Reserved" /\ (d = "" \/ d = "-") THEN "Reserved for future use" ELSE d

\* one register row through clean_rows: <<>> when dropped
CleanRegRow(row) ==
    LET Fixed(name, type) ==
            [row EXCEPT !.name = name, !.type = Dash(type),
                        !.description = ReservedDesc(name, Dash(row.description))]
        Separated(sep) ==
            Fixed(clean_reserved_name(sep[1]),
                  IF sep[2] # "" /\ (row.type = "" \/ row.type = "-") THEN sep[2] ELSE row.type)
    IN IF IsJunkName(row.name) THEN <<>> ELSE <<Separated(separate_name_and_type(row.name))>>

\* one attribute row through clean_rows (is_attr=True): <<>> when dropped
CleanAttrRow(row) ==
    LET Fixed(name, type) ==
            [row EXCEPT !.field_name = name, !.type = Dash(type), !.reset = Dash(row.reset),
                        !.description = ReservedDesc(name, Dash(row.description))]
        Separated(sep) ==
            Fixed(clean_reserved_name(sep[1]),
                  IF sep[2] # "" /\ (row.type = "" \/ row.type = "-") THEN sep[2] ELSE row.type)
    IN IF IsJunkName(row.field_name) THEN <<>>
       ELSE <<Separated(separate_name_and_type(row.field_name))>>

RECURSIVE clean_rows(_, _)
clean_rows(rs, is_attr) ==
    IF rs = <<>> THEN <<>>
    ELSE (IF is_attr THEN CleanAttrRow(Head(rs)) ELSE CleanRegRow(Head(rs)))
         \o clean_rows(Tail(rs), is_attr)

(***************************************************************************)
(* extract: the DataFrame steps on the register rows                       *)
(***************************************************************************)
\* the rows whose index is in keep, in order
RECURSIVE KeepRows(_, _, _)
KeepRows(rs, keep, k) ==
    IF k > Len(rs) THEN <<>>
    ELSE (IF k \in keep THEN <<rs[k]>> ELSE <<>>) \o KeepRows(rs, keep, k + 1)

\* df_regs[~df_regs['name'].str.contains(RESET_NOISE_RE)]
FilterResetNoise(rs) == KeepRows(rs, {k \in 1..Len(rs) : ~RESET_NOISE_RE(rs[k].name)}, 1)

IsReservedName(name) == StartsWith(Lower(Strip(name)), "reserved")

\* the lone row of a (table, offset) group that is dropped as diagram noise
IsDiagramNoise(name) ==
    LET low == Lower(Strip(name))
    IN \/ low = "reserved"
       \/ Contains(low, "reserved logical_id")
       \/ Contains(low, "reserveddtc_domain")
       \/ Contains(low, "reserved mem_data_credits")
       \/ /\ StartsWith(low, "reserved")
          /\ \/ Contains(low, "mem_data_credits")
             \/ Contains(low, "logical_id")
             \/ Contains(low, "dtc_domain")
             \/ Contains(low, "num_device_port")

\* the indices of the rows in the (table, offset) group of row k
GroupOf(rs, k) ==
    {m \in 1..Len(rs) : rs[m].table = rs[k].table /\ rs[m].offset = rs[k].offset}

\* the test for another register at the address, with its negation lost
IsSpuriousAmongReserved(rs, k) ==
    IF Cardinality(GroupOf(rs, k)) > 1
    THEN /\ IsReservedName(rs[k].name)
         /\ \E m \in GroupOf(rs, k) \ {k} : IsReservedName(rs[m].name)
    ELSE IsDiagramNoise(rs[k].name)

IsSpurious(rs, k) ==
    IF Cardinality(GroupOf(rs, k)) > 1
    THEN /\ IsReservedName(rs[k].name)
         /\ \E m \in GroupOf(rs, k) \ {k} : ~IsReservedName(rs[m].name)
    ELSE IsDiagramNoise(rs[k].name)

remove_spurious_reserved_entries(rs) ==
    KeepRows(rs, {k \in 1..Len(rs) : ~IsSpurious(rs, k)}, 1)

\* the last row of each key kept, as keep="last" would
DropDuplicateKeysKeepLast(rs) ==
    KeepRows(rs, {k \in 1..Len(rs) :
                    ~\E m \in (k + 1)..Len(rs) : /\ rs[m].table = rs[k].table
                                                 /\ rs[m].offset = rs[k].offset
                                                 /\ rs[m].name = rs[k].name}, 1)

\* drop_duplicates(subset=["table","offset","name"], keep="first")
DropDuplicateKeys(rs) ==
    KeepRows(rs, {k \in 1..Len(rs) :
                    ~\E m \in 1..(k - 1) : /\ rs[m].table = rs[k].table
                                           /\ rs[m].offset = rs[k].offset
                                           /\ rs[m].name = rs[k].name}, 1)

(***************************************************************************)
(* parse_register_tables: the head of the scanning loop picks the branch   *)
(* for the line under the cursor, and there is one action per branch.      *)
(* log records, for every loop iteration, the line looked at, the branch   *)
(* taken, the rows it appended and the mode and buffer it started from.    *)
(***************************************************************************)
LoopHead ==
    /\ pc = "parse"
    /\ i <= Len(lines)
    /\ pc' = Branch(lines[i], in_register_mode)
    /\ UNCHANGED normvars
    /\ UNCHANGED <<lines, i, in_register_mode, in_attr_mode, current_table,
                   current_reg_name, pending_addr, rows, ghost, log, result>>

AtLine(b) == pc = b

Step(b, next_i, mode, table, pending, emitted) ==
    /\ pc' = "parse"
    /\ i' = next_i
    /\ in_register_mode' = mode
    /\ current_table' = table
    /\ pending_addr' = pending
    /\ rows' = rows \o emitted
    /\ log' = Append(log, [line |-> i, branch |-> b, emitted |-> emitted,
                           mode |-> in_register_mode, pending |-> pending_addr])
    /\ UNCHANGED normvars
    /\ UNCHANGED <<lines, in_attr_mode, current_reg_name, ghost, result>>

ShapeRow(m) == <<Row(current_table, m.offset, m.name, ShapeType(m), ShapeDesc(m))>>

RegHeading ==
    /\ AtLine("heading")
    /\ Step("heading", i + 1, Contains(Lower(lines[i]), "register summary"), lines[i], "", <<>>)

RegOutside ==
    /\ AtLine("outside")
    /\ Step("outside", i + 1, in_register_mode, current_table, pending_addr, <<>>)

RegSkipLabel ==
    /\ AtLine("label")
    /\ Step("label", i + 1, in_register_mode, current_table, pending_addr, <<>>)

\* the section line handled without leaving the table
RegDetailSectionStaysInTable ==
    /\ AtLine("detail_section")
    /\ Step("detail_section", i, in_register_mode, current_table, pending_addr, <<>>)

\* the cursor stays: the next iteration takes the line as one outside a table
RegDetailSection ==
    /\ AtLine("detail_section")
    /\ Step("detail_section", i, FALSE, current_table, pending_addr, <<>>)

RegMultiSegment ==
    /\ AtLine("multi_segment")
    /\ Step("multi_segment", i + 1, in_register_mode, current_table, pending_addr,
            MultiSegmentRows(current_table, multi_segment_match(lines[i])))

RegArray ==
    /\ AtLine("array")
    /\ Step("array", i + 1, in_register_mode, current_table, pending_addr,
            ShapeRow(array_match(lines[i])))

RegRange ==
    /\ AtLine("range")
    /\ Step("range", i + 1, in_register_mode, current_table, pending_addr,
            ShapeRow(range_match(lines[i])))

RegOffsetPlus ==
    /\ AtLine("offset_plus")
    /\ Step("offset_plus", i + 1, in_register_mode, current_table, pending_addr,
            SelectSeq(ShapeRow(offset_plus_match(lines[i])), LAMBDA r : is_probable_name(r.name)))

RegSimple ==
    /\ AtLine("simple")
    /\ Step("simple", i + 1, in_register_mode, current_table, pending_addr,
            SelectSeq(ShapeRow(simple_match(lines[i])), LAMBDA r : is_probable_name(r.name)))

RegOffsetName ==
    /\ AtLine("offset_name")
    /\ \E r \in {OffsetNameStep(lines, i, current_table)} :
         Step("offset_name", r.i, in_register_mode, current_table, "", r.emitted)

RegAccumulate ==
    /\ AtLine("accumulate")
    /\ Step("accumulate", i + 1, in_register_mode, current_table,
            Strip(pending_addr \o " " \o lines[i]), <<>>)

RegSectionReset ==
    /\ AtLine("section")
    /\ Step("section", i + 1, in_register_mode, current_table, "", <<>>)

RegName ==
    /\ AtLine("name")
    /\ \E r \in {NameStep(lines, i, current_table, pending_addr)} :
         Step("name", r.i, in_register_mode, current_table, "", r.emitted)

RegOther ==
    /\ AtLine("other")
    /\ Step("other", i + 1, in_register_mode, current_table, pending_addr, <<>>)

(***************************************************************************)
(* extract: the stages after the scan                                      *)
(***************************************************************************)
Stage(from, to, rs) ==
    /\ pc = from
    /\ pc' = to
    /\ rows' = rs
    /\ UNCHANGED normvars
    /\ UNCHANGED <<lines, i, in_register_mode, in_attr_mode, current_table,
                   current_reg_name, pending_addr, ghost, log>>

ParseReturn == i > Len(lines) /\ Stage("parse", "split", rows) /\ UNCHANGED result

SplitConcatenated ==
    Stage("split", "clean", split_concatenated_registers(rows)) /\ UNCHANGED result

CleanRows == Stage("clean", "filter", clean_rows(rows, FALSE)) /\ UNCHANGED result

\* result keeps the rows the spurious-Reserved removal is given
HardFilter == Stage("filter", "spurious", FilterResetNoise(rows)) /\ result' = rows' 

RemoveSpurious ==
    Stage("spurious", "dedup", remove_spurious_reserved_entries(rows)) /\ UNCHANGED result

DropDuplicates == Stage("dedup", "done", DropDuplicateKeys(rows)) /\ UNCHANGED result

(***************************************************************************)
(* The register pipeline on bounded inputs.  A multi-segment line is       *)
(* assembled from its parts, so that what it has to become can be stated   *)
(* from the parts.                                                         *)
(***************************************************************************)
MaxBlocks == 2

SUMMARY_HEADING == "Table 1-1: node register summary"

Segment(idx, lo, hi) == [idx |-> idx, text |-> "{" \o idx \o "} " \o lo \o " : " \o hi]

SegmentedParts ==
    <<[segs |-> <<Segment("0-23", "0xC00", "0xCB8"), Segment("24-63", "0x20C0", "0x24B8")>>,
       base |-> "foo_reg", suffix |-> "", type |-> "RW", desc |-> "some description"],
      [segs |-> <<Segment("0-1", "0x10", "0x20"), Segment("2-3", "0x30", "0x40"),
                  Segment("4-5", "0x50", "0x60")>>,
       base |-> "bar", suffix |-> "0-5", type |-> "RO", desc |-> ""],
      [segs |-> <<Segment("0-1", "0x10", "0x20"), Segment("2-3", "0x30", "0x40")>>,
       base |-> "foo", suffix |-> "", type |-> "", desc |-> ""]>>

SegmentedLine(c) ==
    Join([k \in 1..Len(c.segs) |-> c.segs[k].text], "; ") \o " " \o c.base \o c.suffix
    \o (IF c.type # "" THEN " " \o c.type ELSE "")
    \o (IF c.desc # "" THEN " " \o c.desc ELSE "")

InputBlocks ==
    <<<<"Table 1-2: node attributes">>,
      <<"Offset", "8.3.1 por_detail">>,
      <<SegmentedLine(SegmentedParts[1])>>,
      <<SegmentedLine(SegmentedParts[2])>>,
      <<SegmentedLine(SegmentedParts[3])>>,
      <<"{0-3} 0x10 : 0x20 arr RO d", "0x10 : 0x20 rng WO", "0x10 + 0x8 plus RW d">>,
      <<"0x100 foo RW d">>,
      <<"0x100 Reserved RO d">>,
      <<"0x100 nm", "RW", "text">>,
      <<"0x100", "Bit descriptions RW">>,
      <<"0x200", "regname", "RW", "desc", "1.2 Section", "42", "0x300", "lonely">>,
      <<"0x100 reg_a RW first 0x108 reg_b RO second">>,
      <<"0x1F0 cfg_ctlRW">>,
      <<"0x100 foo RO other">>,
      <<"0x10 : 0x20 Reserved12ab RW d">>,
      <<"0x100 foo bar", "0x10 : 0x20 rng bad text">>,
      <<"0x100 nm", "RW", "some text", " 8.3.1 por_detail", "0x200", "foo">>,
      <<"0x500", "0x100 foo RW d", "bar">>,
      <<"0x10 : 0x20", "nm", "RW", "d">>,
      <<"0x100 nm", "Offset", "RW", "text">>,
      <<"0x100", "nm", "some text", "RW", "more">>>>

RECURSIVE Flatten(_)
Flatten(ids) == IF ids = <<>> THEN <<>> ELSE InputBlocks[Head(ids)] \o Flatten(Tail(ids))

BlockChoices == UNION {[1..n -> 1..Len(InputBlocks)] : n \in 0..MaxBlocks}

Init ==
    /\ ghost \in BlockChoices
    /\ lines = <<SUMMARY_HEADING>> \o Flatten(ghost)
    /\ pc = "parse"
    /\ i = 1
    /\ in_register_mode = FALSE
    /\ in_attr_mode = FALSE
    /\ current_table = ""
    /\ current_reg_name = ""
    /\ pending_addr = ""
    /\ rows = <<>>
    /\ log = <<>>
    /\ result = <<>>
    /\ NormIdle

Next ==
    \/ LoopHead \/ RegHeading \/ RegOutside \/ RegSkipLabel \/ RegDetailSection
    \/ RegMultiSegment \/ RegArray \/ RegRange \/ RegOffsetPlus \/ RegSimple
    \/ RegOffsetName \/ RegAccumulate \/ RegSectionReset \/ RegName \/ RegOther
    \/ ParseReturn \/ SplitConcatenated \/ CleanRows \/ HardFilter
    \/ RemoveSpurious \/ DropDuplicates

Spec == Init /\ [][Next]_vars

(***************************************************************************)
(* Claims about the register pipeline (specification Spec)                 *)
(***************************************************************************)
\* the log entries of the lines that were assembled from the parts c
EntriesOf(c) == {k \in 1..Len(log) : log[k].mode /\ lines[log[k].line] = SegmentedLine(c)}

\* C1: a line of the multi-segment shape with k >= 2 segments, met in
\* register-summary mode, yields exactly k rows in segment order; row j has
\* the j-th segment's sub-expression as offset and the base name followed by
\* the j-th index range as name, and all rows carry one type and one
\* description.
C1_OneRowPerSegment ==
    \A n \in 1..Len(SegmentedParts) : \A k \in EntriesOf(SegmentedParts[n]) :
        LET c == SegmentedParts[n]
            out == log[k].emitted
        IN /\ Len(out) = Len(c.segs)
           /\ \A j \in 1..Len(out) :
                /\ out[j].offset = c.segs[j].text
                /\ out[j].name = c.base \o c.segs[j].idx
                /\ out[j].type = out[1].type
                /\ out[j].description = out[1].description

\* C3: every register row that survives the whole pipeline has a name that
\* is non-empty and is not one of EXPLICIT_BOILERPLATE_STRINGS.
C3_FinalNamesNotBoilerplate ==
    pc = "done" =>
        \A k \in 1..Len(rows) :
            rows[k].name # "" /\ rows[k].name \notin EXPLICIT_BOILERPLATE_STRINGS

\* C4: after clean_rows every register row has a non-empty offset, a
\* non-empty name, and a type that is an access token or "-".
C4_RowsWellFormedAfterRepair ==
    pc \in {"filter", "spurious", "dedup", "done"} =>
        \A k \in 1..Len(rows) :
            /\ rows[k].offset # ""
            /\ rows[k].name # ""
            /\ rows[k].type \in TYPE_TOKENS \cup {"-"}

\* C4 witness: clean_rows has just run on a row of the name shape that had
\* no type line and on a row the concatenation splitter created.
C4_Witness ==
    /\ pc = "filter"
    /\ \E k \in 1..Len(rows) : rows[k].name = "lonely" /\ rows[k].type = "-"
    /\ \E k \in 1..Len(rows) : rows[k].name = "reg_b" /\ rows[k].offset = "0x108"

\* the rows given to remove_spurious_reserved_entries that share the table
\* and offset of row k
SameAddress(k) ==
    {m \in 1..Len(result) :
        result[m].table = result[k].table /\ result[m].offset = result[k].offset}

NamedReserved(k) == StartsWith(Lower(result[k].name), "reserved")

\* the groups the claim is about: at least two rows, one of them not Reserved
MixedGroup(k) ==
    Cardinality(SameAddress(k)) >= 2 /\ \E m \in SameAddress(k) : ~NamedReserved(m)

\* C10: of a (table, offset) group with at least two rows of which one is
\* not named Reserved, remove_spurious_reserved_entries drops every row
\* named Reserved and retains every other row.
C10_SpuriousReservedDropped ==
    pc = "dedup" =>
        \E keep \in SUBSET (1..Len(result)) :
            /\ rows = KeepRows(result, keep, 1)
            /\ \A k \in 1..Len(result) : MixedGroup(k) => (k \in keep <=> ~NamedReserved(k))

\* C10 witness: a Reserved row and another row at one address went in, and
\* fewer rows came out.
C10_Witness ==
    /\ pc = "dedup"
    /\ \E k \in 1..Len(result) : MixedGroup(k) /\ NamedReserved(k)
    /\ Len(rows) < Len(result)

(***************************************************************************)
(* Name/type separation on its own: one register row whose name is a       *)
(* prefix followed by an access token (or by the end of a plain word) and   *)
(* whose type is unset goes                                                *)
(* through separate_name_and_type and then through clean_rows.             *)
(***************************************************************************)
MaxPrefixLen == 3

PrefixChars == {"a", "1", "_", ".", " "}

RECURSIVE ShortPrefixes(_)
ShortPrefixes(n) ==
    IF n = 0 THEN {""}
    ELSE ShortPrefixes(n - 1)
         \cup {p \o c : p \in {q \in ShortPrefixes(n - 1) : Len(q) = n - 1}, c \in PrefixChars}

LongPrefixes ==
    {"sys_cache_reg0-3", "register_name", "register name ", "abcdefg.", "abcdefghi.",
     "12345678", "12345678R/", "abcdefg.R/", "ARR", "ReservedReserved", "Reserved12ab"}

RepairInputs ==
    [prefix : ShortPrefixes(MaxPrefixLen) \cup LongPrefixes,
     suffix : TYPE_TOKENS \cup {"OW"},
     type : {"", "-"}]

InitRepair ==
    /\ ghost \in RepairInputs
    /\ rows = <<Row("Table 1-1", "0x0", ghost.prefix \o ghost.suffix, ghost.type, "")>>
    /\ pc = "separate"
    /\ lines = <<>>
    /\ i = 1
    /\ in_register_mode = FALSE
    /\ in_attr_mode = FALSE
    /\ current_table = ""
    /\ current_reg_name = ""
    /\ pending_addr = ""
    /\ log = <<>>
    /\ result = <<>>
    /\ NormIdle

\* cleaned_name, extracted_type = separate_name_and_type(original_name)
SeparateNameAndType ==
    /\ pc = "separate"
    /\ result' = separate_name_and_type(rows[1].name)
    /\ pc' = "clean"
    /\ UNCHANGED normvars
    /\ UNCHANGED <<lines, i, in_register_mode, in_attr_mode, current_table,
                   current_reg_name, pending_addr, rows, ghost, log>>

NextRepair == SeparateNameAndType \/ CleanRows

SpecRepair == InitRepair /\ [][NextRepair]_vars

(***************************************************************************)
(* Claims about name/type separation (specification SpecRepair)            *)
(***************************************************************************)
GivenName == ghost.prefix \o ghost.suffix

\* the access tokens the given name ends with
TokensAtEnd == {t \in TYPE_TOKENS : EndsWith(GivenName, t)}

PrefixBefore(t) == Upto(GivenName, Len(GivenName) - Len(t))

\* the condition on the prefix: a letter or underscore, at least 3
\* characters, and one of: last character a digit or hyphen, last character
\* an underscore, at least 10 characters, a simple identifier
PrefixAccepted(p) ==
    /\ \E k \in 1..Len(p) : Ch(p, k) \in LowerLetters \cup UpperLetters \cup {"_"}
    /\ Len(p) >= 3
    /\ \/ Ch(p, Len(p)) \in Digits \cup {"-"}
       \/ Ch(p, Len(p)) = "_"
       \/ Len(p) >= 10
       \/ /\ Ch(p, 1) \in LowerLetters \cup UpperLetters
          /\ \A k \in 2..Len(p) : Ch(p, k) \in LowerLetters \cup UpperLetters \cup Digits \cup {"_"}
          /\ Ch(p, Len(p)) # "_"

SplitTokens == {t \in TokensAtEnd : PrefixAccepted(PrefixBefore(t))}

\* the given name is words separated by white space, the last an access token
LastWordIsToken ==
    Len(SplitWs(GivenName)) >= 2 /\ SplitWs(GivenName)[Len(SplitWs(GivenName))] \in TYPE_TOKENS

RepairedRow == pc = "filter" /\ Len(rows) = 1

C7_LongestTokenSeparated ==
    pc = "clean" /\ Cardinality(TokensAtEnd) >= 2 /\ result[2] # "" =>
        \A t \in TokensAtEnd : Len(t) <= Len(result[2])

(***************************************************************************)
(* The two normalizers of a bits value: parse_bits of the C++ generator    *)
(* and process_bit_range of the CSV optimizer.                             *)
(***************************************************************************)
\* returns <<low, high>>
parse_bits(bits_str) ==
    LET Parsed(parts) ==
            IF Len(parts) >= 2
            THEN <<IF DecVal(parts[1]) <= DecVal(parts[2]) THEN DecVal(parts[1]) ELSE DecVal(parts[2]),
                   IF DecVal(parts[1]) <= DecVal(parts[2]) THEN DecVal(parts[2]) ELSE DecVal(parts[1])>>
            ELSE <<DecVal(parts[1]), DecVal(parts[1])>>
    IN Parsed(SplitOn(StripSet(bits_str, {"[", "]"}), ":"))

\* returns <<reversed_bits, size>>; re.match(r'(\d+):(\d+)') is tried at
\* the first character only
process_bit_range(bits_str) ==
    LET Reversed(high, low) ==
            <<DecStr(low) \o ":" \o DecStr(high),
              (IF high >= low THEN high - low ELSE low - high) + 1>>
        Second(a, b) ==
            IF b = 0 THEN <<bits_str, 1>>
            ELSE Reversed(DecVal(SubSeq(bits_str, 1, a - 1)), DecVal(SubSeq(bits_str, a + 1, b - 1)))
        First(a) ==
            IF a = 0 \/ Ch(bits_str, a) # ":" THEN <<bits_str, 1>>
            ELSE Second(a, DigitsEnd(bits_str, a + 1))
    IN IF Contains(bits_str, ":") THEN First(DigitsEnd(bits_str, 1)) ELSE <<bits_str, 1>>

MaxBit == 12

\* the bits values of attribute rows: the single-line path keeps the
\* brackets, the other path strips them
BitsValues ==
    {[text |-> DecStr(n), first |-> n, second |-> n] : n \in 0..MaxBit}
    \cup {[text |-> "[" \o DecStr(n) \o "]", first |-> n, second |-> n] : n \in 0..MaxBit}
    \cup {[text |-> DecStr(n) \o ":" \o DecStr(m), first |-> n, second |-> m] :
            n \in 0..MaxBit, m \in 0..MaxBit}
    \cup {[text |-> "[" \o DecStr(n) \o ":" \o DecStr(m) \o "]", first |-> n, second |-> m] :
            n \in 0..MaxBit, m \in 0..MaxBit}

InitBits ==
    /\ ghost \in BitsValues
    /\ lines = <<ghost.text>>
    /\ pc = "bits"
    /\ i = 1
    /\ in_register_mode = FALSE
    /\ in_attr_mode = FALSE
    /\ current_table = ""
    /\ current_reg_name = ""
    /\ pending_addr = ""
    /\ rows = <<>>
    /\ log = <<>>
    /\ result = <<>>
    /\ NormIdle

Normalize(to, value) ==
    /\ pc = "bits"
    /\ pc' = to
    /\ result' = value
    /\ UNCHANGED normvars
    /\ UNCHANGED <<lines, i, in_register_mode, in_attr_mode, current_table,
                   current_reg_name, pending_addr, rows, ghost, log>>

\* bit_low, bit_high = parse_bits(field_row['bits'])
ParseBits == Normalize("parse_bits", parse_bits(lines[1]))

\* bits_reversed, bits_size = process_bit_range(row['bits'])
ProcessBitRange == Normalize("process_bit_range", process_bit_range(lines[1]))

NextBits == ParseBits \/ ProcessBitRange

SpecBits == InitBits /\ [][NextBits]_vars

(***************************************************************************)
(* Claims about the bits normalizers (specification SpecBits)              *)
(***************************************************************************)
\* the texts that denote the bits low..high in low-to-high order
OrderedRange(low, high) ==
    {DecStr(low) \o ":" \o DecStr(high), "[" \o DecStr(low) \o ":" \o DecStr(high) \o "]"}
    \cup (IF low = high THEN {DecStr(low), "[" \o DecStr(low) \o "]"} ELSE {})

\* C9: for a single bit or a range in either order, with or without
\* brackets, both parse_bits and process_bit_range give the two bit
\* positions as non-negative integers low <= high.
C9_BitsNormalizedLowHigh ==
    LET low == IF ghost.first <= ghost.second THEN ghost.first ELSE ghost.second
        high == IF ghost.first <= ghost.second THEN ghost.second ELSE ghost.first
    IN /\ pc = "parse_bits" => result = <<low, high>>
       /\ pc = "process_bit_range" => result[1] \in OrderedRange(low, high)

(***************************************************************************)
(* parse_attribute_tables: the pure helpers                                *)
(***************************************************************************)
\* the starts of the matches of \bTOKEN\b in text
TokenStarts(text, token) ==
    {k \in 1..(Len(text) - Len(token) + 1) :
        StartsAt(text, k, token) /\ WordBoundary(text, k) /\ WordBoundary(text, k + Len(token))}

\* the rightmost match over all tokens, the longest token first among
\* equals; start = 0 when no token matches, end is exclusive
find_type_token_position(text) ==
    LET Pick(hits) ==
            IF hits = {} THEN [start |-> 0, end |-> 0, token |-> ""]
            ELSE CHOOSE h \in hits :
                    \A g \in hits : \/ h.start > g.start
                                    \/ h.start = g.start /\ Len(h.token) >= Len(g.token)
    IN Pick({[start |-> MaxOf(TokenStarts(text, t)),
              end |-> MaxOf(TokenStarts(text, t)) + Len(t),
              token |-> t] : t \in {u \in TYPE_TOKENS : TokenStarts(text, u) # {}}})

\* 0x[0-9a-fA-F]+ and 0b[01]+ matched against the whole of s
IsHexLiteral(s) == StartsWith(s, "0x") /\ Len(s) > 2 /\ SpanEnd(s, 3, "hex") > Len(s)
IsBinLiteral(s) == StartsWith(s, "0b") /\ Len(s) > 2 /\ SpanEnd(s, 3, "bit") > Len(s)

\* ^(0x[0-9a-fA-F]+|0b[01]+|\d+|-)$
IsResetLiteral(s) ==
    IsHexLiteral(s) \/ IsBinLiteral(s) \/ (s # "" /\ AllChars(s, "digit")) \/ s = "-"

\* desc + " " + extra if desc else extra
AddTo(desc, extra) == IF desc # "" THEN desc \o " " \o extra ELSE extra

\* the type token anchoring of the single-line path: description before the
\* rightmost token, reset after it
AnchoredFields(full_text) ==
    LET Fields(desc, typ, reset) == [desc |-> desc, typ |-> typ, reset |-> reset]
        WithReset(desc, typ, toks) ==
            IF toks = <<>> THEN Fields(desc, typ, "-")
            ELSE IF Len(toks) > 1 /\ ~IsResetLiteral(Join(Tail(toks), " "))
            THEN Fields(AddTo(desc, Join(Tail(toks), " ")), typ, toks[1])
            ELSE Fields(desc, typ, toks[1])
        Split(m) ==
            IF m.token = "" THEN Fields(full_text, "-", "-")
            ELSE WithReset(Strip(Upto(full_text, m.start - 1)), m.token,
                           SplitWs(From(full_text, m.end)))
    IN IF full_text = "" THEN Fields("", "-", "-")
       ELSE Split(find_type_token_position(full_text))

\* "Validate and clean up reset value" of the single-line path
ValidatedReset(f) ==
    IF f.reset = "" \/ f.reset \in {"-", "0", "1"} THEN f
    ELSE IF f.reset = "Configuration" THEN [f EXCEPT !.reset = "Configuration dependent"]
    ELSE IF f.reset = "Implementation" THEN [f EXCEPT !.reset = "Implementation defined"]
    ELSE IF f.reset \in {"dependent", "defined"}
    THEN [f EXCEPT !.desc = AddTo(f.desc, f.reset), !.reset = "-"]
    ELSE IF IsResetLiteral(f.reset)
            \/ f.reset \in {"Configuration dependent", "Implementation defined"}
    THEN f
    ELSE IF StartsWith(f.reset, "0X") THEN [f EXCEPT !.reset = "0x" \o From(f.reset, 3)]
    ELSE IF StartsWith(f.reset, "0B") THEN [f EXCEPT !.reset = "0b" \o From(f.reset, 3)]
    ELSE [f EXCEPT !.desc = AddTo(f.desc, f.reset), !.reset = "-"]

\* ^\[\d+(?::\d+)?\] at the start of s: the end of the match, 0 when none
BitsTokenEnd(s) ==
    LET Close(b) == IF b # 0 /\ Ch(s, b) = "]" THEN b + 1 ELSE 0
        Range(a) ==
            IF a = 0 THEN 0
            ELSE IF Ch(s, a) = ":" /\ DigitsEnd(s, a + 1) # 0 THEN Close(DigitsEnd(s, a + 1))
            ELSE Close(a)
    IN IF Ch(s, 1) = "[" THEN Range(DigitsEnd(s, 2)) ELSE 0

NoAttrMatch == [ok |-> FALSE, bits |-> "", field_name |-> "", remaining |-> ""]

\* the two regular expressions of the single-line path: the one that lets a
\* field name carry a #{...} template, then the fallback with \S+ for the name
attr_line_match(s) ==
    LET Found(p, e) ==
            [ok |-> TRUE, bits |-> Upto(s, BitsTokenEnd(s) - 1),
             field_name |-> SubSeq(s, p, e - 1), remaining |-> Strip(From(s, e))]
        Plain(p) == Found(p, SpanEnd(s, p, "nonspace"))
        TemplateEnd(p, e) == IF IsSpace(Ch(s, e)) THEN Found(p, e) ELSE Plain(p)
        Template(p, open, close) ==
            IF close > open + 2 THEN TemplateEnd(p, SpanEnd(s, close + 1, "word")) ELSE Plain(p)
        Name(p, e) ==
            IF IsAlphaU(Ch(s, p)) /\ StartsAt(s, e, "#{")
            THEN Template(p, e, FindFrom(s, e + 2, "}"))
            ELSE Plain(p)
        After(e, p) ==
            IF e = 0 \/ p = e \/ p > Len(s) THEN NoAttrMatch
            ELSE Name(p, SpanEnd(s, p, "word"))
    IN After(BitsTokenEnd(s), SpanEnd(s, BitsTokenEnd(s), "space"))

SUB_BIT_WORDS == {"snoop", "allocate", "cacheable", "device", "ewa"}

\* ^\d+- at the start of s
StartsWithDigitsHyphen(s) == DigitsEnd(s, 1) # 0 /\ Ch(s, DigitsEnd(s, 1)) = "-"

\* bits without a colon: "[N]" or "N"
IsSingleBit(bits) ==
    \E v \in {StripSet(bits, {"[", "]"})} : ~Contains(v, ":") /\ v # "" /\ AllChars(v, "digit")

\* "Skip sub-bit definitions" of the single-line path
IsSubBitLine(m) ==
    /\ IsSingleBit(m.bits)
    /\ StartsWithDigitsHyphen(m.field_name) \/ Lower(m.field_name) \in SUB_BIT_WORDS

\* ^Bits\s+Name\s+
IsBitsNameHeader(s) ==
    /\ StartsWith(s, "Bits")
    /\ \E a \in {SpanEnd(s, 5, "space")} :
         a > 5 /\ StartsAt(s, a, "Name") /\ IsSpace(Ch(s, a + 4))

CONTINUATION_INDENT == 25

\* a line of the description column that continues the row above it
IsContinuationLine(next_line) ==
    \E st \in {Strip(next_line)} :
        /\ st # ""
        /\ ~StartsWith(st, "[")
        /\ ~is_heading(st)
        /\ ~IsBitsNameHeader(st)
        /\ ~StartsWith(st, PAGE_BREAK_PREFIX)
        /\ Lower(st) \notin HEADER_LABELS
        /\ Len(next_line) - Len(LStrip(next_line)) >= CONTINUATION_INDENT

\* the scan without "i = j - 1": the run is merged and then read again
ContinuationScanKeepsCursor(ls, j, parts) ==
    IF j <= Len(ls) /\ IsContinuationLine(ls[j])
    THEN [i |-> j, parts |-> Append(parts, Strip(ls[j]))]
    ELSE [i |-> j, parts |-> parts]

RECURSIVE ContinuationScan(_, _, _)
ContinuationScan(ls, j, parts) ==
    IF j <= Len(ls) /\ IsContinuationLine(ls[j])
    THEN ContinuationScan(ls, j + 1, Append(parts, Strip(ls[j])))
    ELSE [i |-> j, parts |-> parts]

AttrRow(table, reg, bits, field_name, desc, typ, reset) ==
    [table |-> table, register_name |-> reg, bits |-> bits, field_name |-> field_name,
     description |-> desc, type |-> typ, reset |-> reset]

\* the single-line path on line k: the line after the row and its
\* continuation lines, and the row when the field name is not noise
AttrLineStep(ls, k, table, reg) ==
    LET Emit(m, f) ==
            IF m.field_name # "" /\ is_probable_name(m.field_name)
               /\ ~is_reserved_concatenation_artifact(m.field_name)
            THEN <<AttrRow(table, reg, m.bits, m.field_name, f.desc, f.typ, f.reset)>>
            ELSE <<>>
        FullText(m, parts) ==
            IF parts = <<>> THEN m.remaining
            ELSE AddTo(m.remaining, Join(parts, " "))
        Parsed(m, c) ==
            [i |-> c.i, emitted |-> Emit(m, ValidatedReset(AnchoredFields(FullText(m, c.parts))))]
    IN Parsed(attr_line_match(ls[k]), ContinuationScan(ls, k + 1, <<>>))

\* ^Table\s+\d+-\d+:\s+(\S+)\s+attributes (IGNORECASE) on a heading: the
\* register name, "" when the heading has another form
HeadingRegName(s) ==
    LET Word(a, e) ==
            IF e > a /\ IsSpace(Ch(s, e))
               /\ StartsAt(Lower(s), SpanEnd(s, e, "space"), "attributes")
            THEN SubSeq(s, a, e - 1) ELSE ""
        AfterColon(a) == Word(a, SpanEnd(s, a, "nonspace"))
    IN AfterColon(SpanEnd(s, FindFrom(s, 1, ":") + 1, "space"))

SUB_BIT_FRAGMENT_MAX == 30

\* the line after a single-bit token that makes the token a sub-bit
\* definition inside a description
IsSubBitFragment(next_line) ==
    \/ StartsWithDigitsHyphen(next_line)
    \/ next_line # "" /\ Len(next_line) < SUB_BIT_FRAGMENT_MAX /\ ~is_probable_name(next_line)
    \/ \E w \in SUB_BIT_WORDS : StartsWith(Lower(next_line), w)

RECURSIVE SkipLabels(_, _)
SkipLabels(ls, j) ==
    IF j <= Len(ls) /\ IsSkippedLabel(ls[j]) THEN SkipLabels(ls, j + 1) ELSE j

\* ^[A-Za-z_][A-Za-z0-9_#{}]*(?:\[[^\]]*\])?\s
StartsWithFieldName(t) ==
    /\ IsAlphaU(Ch(t, 1))
    /\ \E e \in {SpanEnd(t, 2, "field")} :
         \/ IsSpace(Ch(t, e))
         \/ /\ Ch(t, e) = "["
            /\ FindFrom(t, e + 1, "]") # 0
            /\ IsSpace(Ch(t, FindFrom(t, e + 1, "]") + 1))

\* the description loop of the bits-token path
RECURSIVE AttrDescScan(_, _, _, _)
AttrDescScan(ls, j, name, parts) ==
    LET Stop == [i |-> j, name |-> name, parts |-> parts]
        Line(t) ==
            IF is_type_token(t) \/ is_heading(t) \/ is_section_heading(t) THEN Stop
            ELSE IF IsSkippedLabel(t) THEN AttrDescScan(ls, j + 1, name, parts)
            ELSE IF is_bits_token(t) /\ parts # <<>> THEN Stop
            ELSE IF is_addr_line(t) \/ is_offset_token(t) \/ is_range_token(t) \/ is_addr_token(t)
            THEN Stop
            ELSE IF HasBadNamePrefix(t) \/ RESET_NOISE_RE(t) THEN Stop
            ELSE IF name = "" /\ parts = <<>> /\ StartsWithFieldName(t)
            THEN AttrDescScan(ls, j + 1, t, parts)
            ELSE AttrDescScan(ls, j + 1, name, Append(parts, t))
    IN IF j > Len(ls) THEN Stop ELSE Line(ls[j])

\* the type line and the reset line after the description
AttrTypeReset(ls, j) ==
    LET Reset(typ, r) ==
            IF r <= Len(ls) /\ ~(is_bits_token(ls[r]) \/ is_heading(ls[r]) \/ is_section_heading(ls[r]))
            THEN [i |-> r + 1, typ |-> typ,
                  reset |-> IF HasBadNamePrefix(Strip(ls[r])) \/ RESET_NOISE_RE(Strip(ls[r]))
                            THEN "" ELSE Strip(ls[r])]
            ELSE [i |-> r, typ |-> typ, reset |-> ""]
    IN IF j <= Len(ls) /\ is_type_token(ls[j])
       THEN Reset(Strip(ls[j]), SkipLabels(ls, j + 1))
       ELSE [i |-> j, typ |-> "", reset |-> ""]

\* the position of the first space outside braces at or after k, 0 when none
RECURSIVE FirstSpaceOutsideBraces(_, _, _, _)
FirstSpaceOutsideBraces(s, k, depth, in_brackets) ==
    IF k > Len(s) THEN 0
    ELSE IF Ch(s, k) = "{" THEN FirstSpaceOutsideBraces(s, k + 1, depth + 1, TRUE)
    ELSE IF Ch(s, k) = "}"
    THEN FirstSpaceOutsideBraces(s, k + 1, depth - 1, in_brackets /\ depth - 1 # 0)
    ELSE IF Ch(s, k) = " " /\ ~in_brackets THEN k
    ELSE FirstSpaceOutsideBraces(s, k + 1, depth, in_brackets)

\* returns <<field_name, description>>
separate_field_name_from_description(name_str) ==
    LET Binary(s, p, e) ==
            <<Upto(s, p - 1),
              IF Strip(From(s, e)) # "" THEN SubSeq(s, p, e - 1) \o " " \o Strip(From(s, e))
              ELSE SubSeq(s, p, e - 1)>>
        AtSpace(s, q) == IF q > 1 THEN <<Upto(s, q - 1), From(s, q + 1)>> ELSE <<s, "">>
        Split(s, hits) ==
            IF hits # {} THEN Binary(s, MinOf(hits), SpanEnd(s, MinOf(hits) + 2, "bit"))
            ELSE AtSpace(s, FirstSpaceOutsideBraces(s, 1, 0, FALSE))
        Stripped(s) ==
            Split(s, {p \in 2..Len(s) : StartsAt(s, p, "0b") /\ Ch(s, p + 2) \in {"0", "1"}})
    IN IF name_str = "" THEN <<"", "">> ELSE Stripped(Strip(name_str))

\* int(s, 2) for a string of binary digits
RECURSIVE BinVal(_)
BinVal(s) == IF s = "" THEN 0 ELSE 2 * BinVal(Upto(s, Len(s) - 1)) + DigitVal(Ch(s, Len(s)))

\* f"{n:x}"
RECURSIVE HexStr(_)
HexStr(n) == IF n < 16 THEN Ch("0123456789abcdef", n + 1)
             ELSE HexStr(n \div 16) \o Ch("0123456789abcdef", (n % 16) + 1)

\* the start of the last word of a string that does not end in a space
LastWordStart(s) == MaxOf({0} \cup {k \in 1..Len(s) : IsSpace(Ch(s, k))}) + 1

\* \s+(TOKEN)\s+(0b[01]+|0x[0-9A-Fa-f]+|-)\s*$ searched in the description:
\* the last word is the reset literal, the word before it the token, and
\* white space stands before the token
extract_embedded_type_and_reset(description) ==
    LET None == [type |-> "", reset |-> "", description |-> description]
        Hex(lit) == IF StartsWith(lit, "0b") THEN "0x" \o HexStr(BinVal(From(lit, 3))) ELSE lit
        Token(r, b, lit) ==
            IF b > 1 /\ From(r, b) \in TYPE_TOKENS
            THEN [type |-> From(r, b), reset |-> Hex(lit), description |-> Strip(Upto(r, b - 1))]
            ELSE None
        Before(r, lit) == Token(r, LastWordStart(r), lit)
        Literal(r, a) ==
            IF a > 1 /\ (IsBinLiteral(From(r, a)) \/ IsHexLiteral(From(r, a)) \/ From(r, a) = "-")
            THEN Before(RStrip(Upto(r, a - 1)), From(r, a))
            ELSE None
        Last(r) == Literal(r, LastWordStart(r))
    IN Last(RStrip(description))

\* returns <<inferred_type, inferred_reset>>
infer_missing_type_and_reset(field_name, table_name) ==
    LET Has(low, pats) == \E q \in pats : Contains(low, q)
        Infer(low, table_low) ==
            IF Has(low, {"ierr", "serr", "errstatus", "error"}) THEN <<"RO", "-">>
            ELSE IF Contains(low, "pmu_event") /\ Contains(low, "_id") THEN <<"RW", "0x0">>
            ELSE IF Has(low, {"num_", "_crds", "credits"}) THEN <<"RW", "0x0">>
            ELSE IF Has(low, {"_ctl", "_cfg", "_config", "_control"}) THEN <<"RW", "0x0">>
            ELSE IF Has(low, {"_sel", "_en", "_enable", "_disable"}) THEN <<"RW", "0x0">>
            ELSE IF Has(low, {"memory_attributes", "capabilities", "_cap"}) THEN <<"RO", "-">>
            ELSE IF Has(low, {"offset", "address", "_addr"}) THEN <<"RW", "0x0">>
            ELSE IF Contains(low, "registeroffset") THEN <<"RO", "-">>
            ELSE IF Has(low, {"archver", "archrevision", "archpart"}) THEN <<"RO", "-">>
            ELSE IF Contains(low, "status") THEN <<"RO", "0x0">>
            ELSE IF low = "change" THEN <<"RO", "0x0">>
            ELSE IF Has(low, {"cache", "allocate", "cacheable"}) THEN <<"RW", "0x0">>
            ELSE IF Has(table_low, {"_ctl", "_cfg", "_config"}) THEN <<"RW", "0x0">>
            ELSE <<"RW", "0x0">>
    IN IF field_name = "" THEN <<"RW", "0x0">> ELSE Infer(Lower(field_name), Lower(table_name))

\* a value that is neither empty nor the dash
IsSet(v) == v # "" /\ v # "-"

\* the bits-token path from the line after the token on: name, description,
\* type and reset lines, then the row, which is appended whatever the name
AttrBitsStep(ls, k, table, reg) ==
    LET Emit(j, bits, field_name, desc, typ, reset) ==
            [i |-> j, emitted |-> <<AttrRow(table, reg, bits, field_name, desc, typ, reset)>>]
        Inferred(j, name, desc, e, inf) ==
            Emit(j, StripSet(ls[k], {"[", "]"}), name, desc, inf[1],
                 IF IsSet(inf[2]) THEN inf[2] ELSE IF e.reset # "" THEN e.reset ELSE inf[2])
        Typed(j, name, desc, e, typ, reset) ==
            IF IsSet(typ) THEN Emit(j, StripSet(ls[k], {"[", "]"}), name, desc, typ, reset)
            ELSE Inferred(j, name, desc, e, infer_missing_type_and_reset(name, table))
        Extracted(tr, name, fd, e) ==
            Typed(tr.i, name, IF e.type # "" THEN e.description ELSE fd, e,
                  IF IsSet(tr.typ) THEN tr.typ ELSE e.type,
                  IF IsSet(tr.reset) THEN tr.reset ELSE e.reset)
        Described(tr, name, fd) == Extracted(tr, name, fd, extract_embedded_type_and_reset(fd))
        Combined(tr, name, ext, fd) ==
            Described(tr, name,
                      IF fd = "" /\ ext # "" THEN ext
                      ELSE IF ext # "" /\ fd # "" /\ ~StartsWith(fd, ext) THEN ext \o " " \o fd
                      ELSE fd)
        Separated(d, sep) ==
            Combined(AttrTypeReset(ls, d.i), IF sep[1] # "" THEN sep[1] ELSE d.name,
                     sep[2], Strip(Join(d.parts, " ")))
        Scanned(d) == Separated(d, separate_field_name_from_description(d.name))
        Named(n) == Scanned(AttrDescScan(ls, n.i, n.name, <<>>))
        Start(j) ==
            IF j <= Len(ls) /\ is_probable_name(ls[j])
            THEN Named(NameScan(ls, j + 1, Strip(ls[j])))
            ELSE Named([i |-> j, name |-> ""])
    IN Start(SkipLabels(ls, k + 1))

(***************************************************************************)
(* parse_attribute_tables: the head of the scanning loop picks the branch  *)
(* for the line under the cursor, and there is one action per branch.      *)
(* Then clean_rows(is_attr=True) and drop_duplicates, as extract runs them.*)
(***************************************************************************)
AttrBranch(ls, k, in_mode) ==
    LET Bits(s) ==
            IF IsSingleBit(s) /\ k + 1 <= Len(ls) /\ IsSubBitFragment(Strip(ls[k + 1]))
            THEN "attr_bits_sub_bit" ELSE "attr_bits"
        Entry(s, m) ==
            IF m.ok THEN (IF IsSubBitLine(m) THEN "attr_sub_bit" ELSE "attr_line")
            ELSE IF is_bits_token(s) THEN Bits(s)
            ELSE "attr_other"
        Line(s) ==
            IF is_heading(s) THEN "attr_heading"
            ELSE IF ~in_mode THEN "attr_outside"
            ELSE IF IsSkippedLabel(s) \/ IsBitsNameHeader(s) THEN "attr_label"
            ELSE Entry(s, attr_line_match(s))
    IN Line(ls[k])

AttrLoopHead ==
    /\ pc = "attr"
    /\ i <= Len(lines)
    /\ pc' = AttrBranch(lines, i, in_attr_mode)
    /\ UNCHANGED normvars
    /\ UNCHANGED <<lines, i, in_register_mode, in_attr_mode, current_table,
                   current_reg_name, pending_addr, rows, ghost, log, result>>

AttrStep(b, next_i, emitted) ==
    /\ pc = b
    /\ pc' = "attr"
    /\ i' = next_i
    /\ rows' = rows \o emitted
    /\ log' = Append(log, [line |-> i, branch |-> b, emitted |-> emitted])
    /\ UNCHANGED normvars
    /\ UNCHANGED <<lines, in_register_mode, pending_addr, ghost, result>>

AttrSameTable == UNCHANGED <<in_attr_mode, current_table, current_reg_name>>

AttrHeading ==
    /\ AttrStep("attr_heading", i + 1, <<>>)
    /\ current_table' = lines[i]
    /\ in_attr_mode' = Contains(Lower(lines[i]), "attribute")
    /\ current_reg_name' = IF in_attr_mode' /\ HeadingRegName(lines[i]) # ""
                           THEN HeadingRegName(lines[i]) ELSE current_reg_name

AttrOutside == AttrStep("attr_outside", i + 1, <<>>) /\ AttrSameTable

AttrSkipLabel == AttrStep("attr_label", i + 1, <<>>) /\ AttrSameTable

AttrSubBitLine == AttrStep("attr_sub_bit", i + 1, <<>>) /\ AttrSameTable

AttrLine ==
    /\ pc = "attr_line"
    /\ \E r \in {AttrLineStep(lines, i, current_table, current_reg_name)} :
          AttrStep("attr_line", r.i, r.emitted)
    /\ AttrSameTable

AttrSubBitToken == AttrStep("attr_bits_sub_bit", i + 1, <<>>) /\ AttrSameTable

AttrBitsToken ==
    /\ pc = "attr_bits"
    /\ \E r \in {AttrBitsStep(lines, i, current_table, current_reg_name)} :
          AttrStep("attr_bits", r.i, r.emitted)
    /\ AttrSameTable

AttrOther == AttrStep("attr_other", i + 1, <<>>) /\ AttrSameTable

\* df_attrs.drop_duplicates(): the first of identical rows is kept
DropDuplicateRows(rs) ==
    KeepRows(rs, {k \in 1..Len(rs) : ~\E m \in 1..(k - 1) : rs[m] = rs[k]}, 1)

AttrReturn == i > Len(lines) /\ Stage("attr", "attr_clean", rows) /\ UNCHANGED result

\* result keeps the rows as the parser returned them
CleanAttrRows == Stage("attr_clean", "attr_dedup", clean_rows(rows, TRUE)) /\ result' = rows

DropDuplicateAttrs == Stage("attr_dedup", "attr_done", DropDuplicateRows(rows)) /\ UNCHANGED result

(***************************************************************************)
(* The attribute pipeline on bounded inputs.  A line of the single-line    *)
(* shape is assembled from its parts, so that what it has to become can be *)
(* stated from the parts.                                                  *)
(***************************************************************************)
ATTR_HEADING == "Table 1-2: foo_reg attributes"

\* [bits] field_name text TOKEN LITERAL; hex is the literal in hexadecimal
AttrLineParts ==
    <<[bits |-> "[7:0]", name |-> "fld", text |-> "some text", token |-> "RW",
       literal |-> "0b101", hex |-> "0x5"],
      [bits |-> "[15:8]", name |-> "ctl_en", text |-> "enable", token |-> "RO",
       literal |-> "0x1F", hex |-> "0x1F"],
      [bits |-> "[3]", name |-> "flag", text |-> "set to clear", token |-> "W1C",
       literal |-> "-", hex |-> "-"]>>

AssembledLine(c) ==
    c.bits \o " " \o c.name \o " " \o c.text \o " " \o c.token \o " " \o c.literal

AttrBlocks ==
    <<<<SUMMARY_HEADING, "0x100 foo RW d", ATTR_HEADING>>,
      <<"Bits Name Description Type Reset", "bits">>,
      <<AssembledLine(AttrLineParts[1])>>,
      <<AssembledLine(AttrLineParts[2])>>,
      <<AssembledLine(AttrLineParts[3])>>,
      <<"[0] snoop text here", "plain text">>,
      <<"[7:0] fld first part", "                         continued RW 0x0">>,
      <<"[7:0]", "field_a", "description text", "RW", "0x0">>,
      <<"[3:0]", "fld0b1 rest of text W1C 0b11">>,
      <<"[0]", "1- persistent device">>,
      <<"[7:0]">>,
      <<"[7:0]", " Reserved12ab RW">>,
      <<"[7:0] fld some text R/W1C 0x0">>,
      <<"[7:0] fld part RW 0x0", "                         more text",
        "                        tail text">>,
      <<"Table 1-3: attributes of bar_reg", "[3:0] fld more text RO 0x1">>>>

RECURSIVE FlattenAttr(_)
FlattenAttr(choice) ==
    IF choice = <<>> THEN <<>> ELSE AttrBlocks[Head(choice)] \o FlattenAttr(Tail(choice))

InitAttr ==
    /\ ghost \in UNION {[1..n -> 1..Len(AttrBlocks)] : n \in 0..MaxBlocks}
    /\ lines = <<ATTR_HEADING>> \o FlattenAttr(ghost)
    /\ pc = "attr"
    /\ i = 1
    /\ in_register_mode = FALSE
    /\ in_attr_mode = FALSE
    /\ current_table = ""
    /\ current_reg_name = ""
    /\ pending_addr = ""
    /\ rows = <<>>
    /\ log = <<>>
    /\ result = <<>>
    /\ NormIdle

NextAttr ==
    \/ AttrLoopHead \/ AttrHeading \/ AttrOutside \/ AttrSkipLabel \/ AttrSubBitLine
    \/ AttrLine \/ AttrSubBitToken \/ AttrBitsToken \/ AttrOther
    \/ AttrReturn \/ CleanAttrRows \/ DropDuplicateAttrs

SpecAttr == InitAttr /\ [][NextAttr]_vars

(***************************************************************************)
(* Claims about the attribute pipeline (specification SpecAttr)            *)
(***************************************************************************)
\* C5: every attribute row that parse_attribute_tables produced and
\* clean_rows kept has a field_name that is non-empty and is not a
\* boilerplate sentence, on the single-line path and on the path of a bits
\* token alone on its line.
C5_FieldNamesNotEmpty ==
    pc \in {"attr_dedup", "attr_done"} =>
        \A k \in 1..Len(rows) :
            rows[k].field_name # "" /\ ~boilerplate_sentence_re(rows[k].field_name)

\* C8: a line [bits] field_name rest whose rest ends with an access token
\* and a reset literal yields a row with that token as type, the text before
\* the token as description, and the literal as reset, a binary literal
\* converted to hexadecimal.
C8_TypeAndResetFromLineEnd ==
    \A n \in 1..Len(AttrLineParts) : \A k \in 1..Len(log) :
        lines[log[k].line] = AssembledLine(AttrLineParts[n]) /\ log[k].branch = "attr_line" =>
            /\ Len(log[k].emitted) = 1
            /\ log[k].emitted[1].type = AttrLineParts[n].token
            /\ log[k].emitted[1].description = AttrLineParts[n].text
            /\ log[k].emitted[1].reset = AttrLineParts[n].hex

(***************************************************************************)
(* clean_pdf_text: the Line Normalizer.  A line is a string that ends with *)
(* its newline, as readlines() returns it.  The model's alphabet is ASCII: *)
(* the copyright sign is written (c), the registered sign (r), the trade   *)
(* mark sign (tm) and a ligature by its letters between angle brackets.    *)
(***************************************************************************)
NL == "\n"

\* the lines that follow a footer's copyright line and are skipped with it
IsFooterLine(next_line) ==
    \/ Contains(next_line, "Non-Confidential") \/ Contains(next_line, "Non-Con<fi>dential")
    \/ Contains(next_line, "Page ") /\ Contains(next_line, " of ")
    \/ Contains(next_line, "Arm(r)") \/ Contains(next_line, "Neoverse(tm)")
    \/ Contains(next_line, "Technical Reference Manual")
    \/ Contains(next_line, "Programmers model") \/ Contains(next_line, "Issue")
    \/ Strip(next_line) = ""

FOOTER_SKIP_MAX == 9

\* the index of the last line skipped after the copyright line at j
RECURSIVE FooterEnd(_, _, _)
FooterEnd(ls, j, skip_count) ==
    IF j <= Len(ls) /\ skip_count < FOOTER_SKIP_MAX /\ j + 1 <= Len(ls) /\ IsFooterLine(ls[j + 1])
    THEN FooterEnd(ls, j + 1, skip_count + 1)
    ELSE j

\* ^(Table \d+-\d+:.*) : the heading line without its newline, "" when none
TableHeader(line) ==
    LET Colon(c) == IF c # 0 /\ Ch(line, c) = ":" THEN StripSet(line, {NL}) ELSE ""
        Hyphen(b) == Colon(IF b # 0 /\ Ch(line, b) = "-" THEN DigitsEnd(line, b + 1) ELSE 0)
    IN IF StartsWith(line, "Table ") THEN Hyphen(DigitsEnd(line, 7)) ELSE ""

\* ^O<ff>set\s+Name\s+ or ^Bits\s+Name\s+
IsColumnHeader(line) ==
    \/ IsBitsNameHeader(line)
    \/ /\ StartsWith(line, "O<ff>set")
       /\ \E a \in {SpanEnd(line, 9, "space")} :
            a > 9 /\ StartsAt(line, a, "Name") /\ IsSpace(Ch(line, a + 4))

\* the first pass: page footers and headers and repeated column headers go;
\* table is the current table ("None" before the first), seen the header keys
RECURSIVE FirstPass(_, _, _, _)
FirstPass(ls, j, table, seen) ==
    LET Header(line, t, key) ==
            IF key \in seen THEN FirstPass(ls, j + 1, t, seen)
            ELSE <<line>> \o FirstPass(ls, j + 1, t, seen \cup {key})
        Tabled(line, t) ==
            IF IsColumnHeader(line) THEN Header(line, t, t \o ":" \o Strip(line))
            ELSE <<line>> \o FirstPass(ls, j + 1, t, seen)
        Line(line) ==
            IF Contains(line, "Copyright (c)") /\ Contains(line, "Arm Limited")
            THEN FirstPass(ls, FooterEnd(ls, j, 0) + 1, table, seen)
            ELSE Tabled(line, IF TableHeader(line) # "" THEN TableHeader(line) ELSE table)
    IN IF j > Len(ls) THEN <<>> ELSE Line(ls[j])

\* ^(?:0x|16'h)[0-9A-Fa-f]+$ and ^(?:0x|16'h)[0-9A-Fa-f]+\s*:$ on a stripped line
IsAddrOnly(s) == AddrEnd(s, 1) = Len(s) + 1
IsAddrColon(s) ==
    /\ AddrEnd(s, 1) # 0
    /\ Ch(s, Len(s)) = ":"
    /\ SpanEnd(s, AddrEnd(s, 1), "space") = Len(s)

\* the second pass: an offset range split over two or three lines is joined
RECURSIVE SecondPass(_, _)
SecondPass(ls, j) ==
    LET Has(k) == k <= Len(ls)
        Line(line) ==
            IF IsAddrColon(Strip(line)) /\ Has(j + 1) /\ IsAddrOnly(Strip(ls[j + 1]))
            THEN <<Strip(line) \o " " \o Strip(ls[j + 1]) \o NL>> \o SecondPass(ls, j + 2)
            ELSE IF /\ IsAddrOnly(Strip(line))
                    /\ Has(j + 1) /\ Strip(ls[j + 1]) = ":"
                    /\ Has(j + 2) /\ IsAddrOnly(Strip(ls[j + 2]))
            THEN <<Strip(line) \o " : " \o Strip(ls[j + 2]) \o NL>> \o SecondPass(ls, j + 3)
            ELSE <<line>> \o SecondPass(ls, j + 1)
    IN IF j > Len(ls) THEN <<>> ELSE Line(ls[j])

NORM_TYPES == <<"RW", "RO", "WO", "RWL", "W1C", "W1S", "R/W">>

\* (RW|RO|WO|RWL|W1C|W1S|R/W) at p: the end of the first alternative that
\* stands there (followed by white space when spaced), 0 when none
RECURSIVE NormTypeEnd(_, _, _, _)
NormTypeEnd(s, p, spaced, k) ==
    IF k > Len(NORM_TYPES) THEN 0
    ELSE IF StartsAt(s, p, NORM_TYPES[k]) /\ (~spaced \/ IsSpace(Ch(s, p + Len(NORM_TYPES[k]))))
    THEN p + Len(NORM_TYPES[k])
    ELSE NormTypeEnd(s, p, spaced, k + 1)

\* the starts t > from of a type that white space stands before
TypeStarts(s, from, spaced) ==
    {t \in (from + 1)..Len(s) : IsSpace(Ch(s, t - 1)) /\ NormTypeEnd(s, t, spaced, 1) # 0}

\* the text of s from p to the end of the line, the newline left out
RestOfLine(s, p) == StripSet(From(s, p), {NL})

NoParts == [ok |-> FALSE, index |-> "", name |-> "", type |-> "", description |-> ""]

\* ^(\{[\d-]+\})\s+(NAME)\s+(TYPES)\s+(.*) with NAME = (.*?) when loose and
\* (\w+.*?) otherwise: the name ends at the first white space that a type
\* follows; a loose name is empty when the type stands where the name would
IndexedParts(s, loose) ==
    LET Parts(p, e, t) ==
            [ok |-> TRUE, index |-> Upto(s, BraceEnd(s, 1) - 1),
             name |-> RStrip(SubSeq(s, p, e - 1)),
             type |-> SubSeq(s, t, NormTypeEnd(s, t, TRUE, 1) - 1),
             description |-> RestOfLine(s, SpanEnd(s, NormTypeEnd(s, t, TRUE, 1), "space"))]
        Named(b, p, ts) ==
            IF ts # {} /\ (loose \/ IsWord(Ch(s, p))) THEN Parts(p, MinOf(ts), MinOf(ts))
            ELSE IF loose /\ p > b + 1 /\ NormTypeEnd(s, p, TRUE, 1) # 0 THEN Parts(p, p, p)
            ELSE NoParts
        Index(b, p) ==
            IF b = 0 \/ p = b \/ p > Len(s) THEN NoParts
            ELSE Named(b, p, TypeStarts(s, p, TRUE))
    IN Index(BraceEnd(s, 1), SpanEnd(s, BraceEnd(s, 1), "space"))

\* what a branch of the third pass does at line j: whether it applies, the
\* lines it appends and the line it goes on with
NoJoin == [ok |-> FALSE, out |-> <<>>, next |-> 0]
Joined(out, next) == [ok |-> TRUE, out |-> out, next |-> next]

\* ^\[[\d:]+\] at the start of s: the end of the match, 0 when none
BitsLikeEnd(s) ==
    IF Ch(s, 1) = "[" /\ SpanEnd(s, 2, "digit_colon") > 2 /\ Ch(s, SpanEnd(s, 2, "digit_colon")) = "]"
    THEN SpanEnd(s, 2, "digit_colon") + 1 ELSE 0

\* the first word of a line
FirstWord(s) == SubSeq(s, SpanEnd(s, 1, "space"), SpanEnd(s, SpanEnd(s, 1, "space"), "nonspace") - 1)

\* a field name that a template expression wrapped to the next line:
\* ^(\[[\d:]+\])\s+(\S+\s*\+)\s+(.*) joined with the next line's first word
JoinFieldName(ls, j) ==
    LET Combined(line, p, e, r) ==
            Joined(<<Upto(line, BitsLikeEnd(line) - 1) \o " "
                     \o (IF Ch(line, e) = "+" THEN SubSeq(line, p, e) \o " " \o FirstWord(ls[j + 1])
                         ELSE SubSeq(line, p, e) \o FirstWord(ls[j + 1]))
                     \o " " \o RestOfLine(line, r) \o NL>>, j + 2)
        Name(line, p, e, w) ==
            IF w > e /\ Ch(line, w) = "+" /\ IsSpace(Ch(line, w + 1))
            THEN Combined(line, p, w, SpanEnd(line, w + 1, "space"))
            ELSE IF e - p >= 2 /\ Ch(line, e - 1) = "+" THEN Combined(line, p, e - 1, w)
            ELSE NoJoin
        Word(line, p, e) == Name(line, p, e, SpanEnd(line, e, "space"))
        Bits(line, b, p) ==
            IF /\ b # 0 /\ IsSpace(Ch(line, b))
               /\ \E q \in (b + 1)..Len(line) : Ch(line, q) = "+" /\ IsSpace(Ch(line, q + 1))
               /\ j + 1 <= Len(ls)
               /\ IsSpace(Ch(ls[j + 1], 1))
               /\ \E q \in 2..Len(ls[j + 1]) : StartsAt(ls[j + 1], q, "}_")
            THEN Word(line, p, SpanEnd(line, p, "nonspace"))
            ELSE NoJoin
    IN Bits(ls[j], BitsLikeEnd(ls[j]), SpanEnd(ls[j], BitsLikeEnd(ls[j]), "space"))

\* ^ADDR\s+\w+ on a stripped line
IsAddrThenWord(s) ==
    /\ AddrEnd(s, 1) # 0
    /\ SpanEnd(s, AddrEnd(s, 1), "space") > AddrEnd(s, 1)
    /\ IsWord(Ch(s, SpanEnd(s, AddrEnd(s, 1), "space")))

\* an array index and the first part of a name, then the offset with the
\* rest of the name, a colon and the end offset on the next three lines
JoinOffsetAfter(ls, j) ==
    LET Combined(m, line1, line3) ==
            IF m.ok
            THEN Joined(<<m.index \o " " \o Upto(line1, AddrEnd(line1, 1) - 1) \o " : " \o line3
                          \o " " \o m.name \o From(line1, SpanEnd(line1, AddrEnd(line1, 1), "space"))
                          \o " " \o m.type \o " " \o m.description \o NL>>, j + 4)
            ELSE NoJoin
        Line(line, b, p) ==
            IF /\ b # 0 /\ p > b /\ IsWord(Ch(line, p)) /\ TypeStarts(line, p, FALSE) # {}
               /\ j + 3 <= Len(ls)
               /\ IsAddrThenWord(Strip(ls[j + 1]))
               /\ Strip(ls[j + 2]) = ":"
               /\ IsAddrOnly(Strip(ls[j + 3]))
            THEN Combined(IndexedParts(line, TRUE), Strip(ls[j + 1]), Strip(ls[j + 3]))
            ELSE NoJoin
    IN Line(ls[j], BraceEnd(ls[j], 1), SpanEnd(ls[j], BraceEnd(ls[j], 1), "space"))

\* ^(?:0x|16'h)[0-9A-Fa-f]+.*_\s+(RW|RO|...): an offset, and later an
\* underscore followed by blanks and an access type
IsNameEndingInUnderscore(s) ==
    /\ AddrEnd(s, 1) # 0
    /\ \E t \in TypeStarts(s, AddrDigits(s, 1) + 1, FALSE) :
          \E u \in (AddrDigits(s, 1) + 1)..(t - 2) :
              Ch(s, u) = "_" /\ SpanEnd(s, u + 1, "space") = t

\* line.rstrip('\n')
WithoutNewline(s) ==
    LET keep == {q \in 1..Len(s) : Ch(s, q) # NL}
    IN IF keep = {} THEN "" ELSE Upto(s, MaxOf(keep))

\* ^\s+[a-z_]+\s*$ on a line without its newline
IsLowercaseContinuation(s) ==
    /\ IsSpace(Ch(s, 1))
    /\ Strip(s) # ""
    /\ SpanEnd(Strip(s), 1, "lower_underscore") = Len(Strip(s)) + 1

\* a register name ending in an underscore: the line after it in the list
\* of the FIRST pass decides whether the next line is skipped
SkipNameContinuation(ls, cleaned, j) ==
    IF /\ IsNameEndingInUnderscore(ls[j])
       /\ j + 1 <= Len(cleaned)
       /\ IsLowercaseContinuation(WithoutNewline(cleaned[j + 1]))
    THEN Joined(<<ls[j]>>, j + 2)
    ELSE NoJoin

\* an array range whose end offset is on the next line of the first pass's list
JoinArrayEnd(ls, cleaned, j) ==
    LET Line(line, b, p, e, c) ==
            IF /\ b # 0 /\ p > b /\ e # 0 /\ Ch(line, c) = ":"
               /\ j + 1 <= Len(cleaned)
               /\ IsAddrOnly(Strip(cleaned[j + 1]))
            THEN Joined(<<Upto(line, c) \o " " \o Strip(cleaned[j + 1]) \o " "
                          \o RestOfLine(line, SpanEnd(line, c + 1, "space")) \o NL>>, j + 2)
            ELSE NoJoin
        Addr(line, b, p, e) == Line(line, b, p, e, IF e = 0 THEN 0 ELSE SpanEnd(line, e, "space"))
        Index(line, b, p) == Addr(line, b, p, IF b = 0 THEN 0 ELSE AddrEnd(line, p))
    IN Index(ls[j], BraceEnd(ls[j], 1), SpanEnd(ls[j], BraceEnd(ls[j], 1), "space"))

IsIndexOnly(s) == BraceEnd(s, 1) = Len(s) + 1
IsAddrRange(s) == AddrRangeAt(s, 1).end = Len(s) + 1

OUTER_LOOKAHEAD == 15
INNER_LOOKAHEAD == 8

\* the look-ahead of the index/offset join: further "{a-b}" lines, each
\* followed by its offset range, are added to the offset part
RECURSIVE IndexOffsets(_, _, _, _)
RECURSIVE IndexOffsetSearch(_, _, _, _, _)
IndexOffsets(ls, first, jj, part) ==
    IF jj > Len(ls) \/ jj > first + OUTER_LOOKAHEAD THEN [next |-> jj, part |-> part]
    ELSE IF Strip(ls[jj]) = "" THEN IndexOffsets(ls, first, jj + 1, part)
    ELSE IF IsIndexOnly(Strip(ls[jj])) THEN IndexOffsetSearch(ls, first, jj, jj + 1, part)
    ELSE [next |-> jj, part |-> part]

IndexOffsetSearch(ls, first, jj, k, part) ==
    IF k > Len(ls) \/ k > jj + INNER_LOOKAHEAD THEN [next |-> jj, part |-> part]
    ELSE IF Strip(ls[k]) = "" THEN IndexOffsetSearch(ls, first, jj, k + 1, part)
    ELSE IF IsAddrRange(Strip(ls[k]))
    THEN IndexOffsets(ls, first, k + 1, part \o "; " \o Strip(ls[jj]) \o " " \o Strip(ls[k]))
    ELSE IF IsAddrOnly(Strip(ls[k]))
    THEN IF k + 2 <= Len(ls) /\ Strip(ls[k + 1]) = ":" /\ IsAddrOnly(Strip(ls[k + 2]))
         THEN IndexOffsets(ls, first, k + 3,
                           part \o "; " \o Strip(ls[jj]) \o " " \o Strip(ls[k]) \o " : " \o Strip(ls[k + 2]))
         ELSE IndexOffsetSearch(ls, first, jj, k + 1, part)
    ELSE [next |-> jj, part |-> part]

\* an array index and a name, the offset range on the next line
JoinIndexOffset(ls, j) ==
    LET Combined(line, p, found) ==
            Joined(<<found.part \o " " \o RestOfLine(line, p) \o NL>>, found.next)
        Line(line, b, p) ==
            IF /\ b # 0 /\ p > b /\ IsWord(Ch(line, p)) /\ ~StartsAt(line, p, "0x")
               /\ j + 1 <= Len(ls)
               /\ IsAddrRange(Strip(ls[j + 1]))
            THEN Combined(line, p, IndexOffsets(ls, j, j + 2, Upto(line, b - 1) \o " " \o Strip(ls[j + 1])))
            ELSE NoJoin
    IN Line(ls[j], BraceEnd(ls[j], 1), SpanEnd(ls[j], BraceEnd(ls[j], 1), "space"))

SECOND_RANGE_LOOKAHEAD == 3

\* the line, among the next three, that is a second "{a-b} start : end"
\* range: 0 when a line that is neither blank nor an index comes first
RECURSIVE SecondRangeAt(_, _, _)
SecondRangeAt(ls, j, jj) ==
    IF jj > Len(ls) \/ jj > j + SECOND_RANGE_LOOKAHEAD THEN 0
    ELSE IF SegmentAt(Strip(ls[jj]), 1, FALSE).end = Len(Strip(ls[jj])) + 1 THEN jj
    ELSE IF Strip(ls[jj]) # "" /\ Ch(Strip(ls[jj]), 1) # "{" THEN 0
    ELSE SecondRangeAt(ls, j, jj + 1)

\* a complete row with one range, a second range on a following line
JoinSecondRange(ls, j) ==
    LET Combined(line, e, w, at) ==
            IF at = 0
            THEN Joined(<<Upto(line, e - 1) \o " " \o RestOfLine(line, w) \o NL>>, j + 1)
            ELSE Joined(<<Upto(line, e - 1) \o "; " \o Strip(ls[at]) \o " " \o RestOfLine(line, w) \o NL>>,
                        at + 1)
        Line(line, e, w) ==
            IF e # 0 /\ w > e /\ IsWord(Ch(line, w))
            THEN Combined(line, e, w, SecondRangeAt(ls, j, j + 1))
            ELSE NoJoin
        Range(line, e) == Line(line, e, IF e = 0 THEN 0 ELSE SpanEnd(line, e, "space"))
    IN Range(ls[j], SegmentAt(ls[j], 1, FALSE).end)

\* the third pass of clean_pdf_text over the second pass's lines; two of its
\* branches read the line after j in the first pass's list
RECURSIVE ThirdPass(_, _, _)
ThirdPass(ls, cleaned, j) ==
    LET Go(r) == r.out \o ThirdPass(ls, cleaned, r.next)
        SecondRange(r) == IF r.ok THEN Go(r) ELSE <<ls[j]>> \o ThirdPass(ls, cleaned, j + 1)
        IndexOffset(r) == IF r.ok THEN Go(r) ELSE SecondRange(JoinSecondRange(ls, j))
        ArrayEnd(r) == IF r.ok THEN Go(r) ELSE IndexOffset(JoinIndexOffset(ls, j))
        NameContinuation(r) == IF r.ok THEN Go(r) ELSE ArrayEnd(JoinArrayEnd(ls, cleaned, j))
        OffsetAfter(r) == IF r.ok THEN Go(r) ELSE NameContinuation(SkipNameContinuation(ls, cleaned, j))
        FieldName(r) == IF r.ok THEN Go(r) ELSE OffsetAfter(JoinOffsetAfter(ls, j))
    IN IF j > Len(ls) THEN <<>> ELSE FieldName(JoinFieldName(ls, j))

\* ^16'h([0-9A-Fa-f]+)\s*:$ and ^16'h([0-9A-Fa-f]+)$ on a stripped line:
\* the digits, "" when the line is something else
VerilogStart(s) ==
    LET e == SpanEnd(s, 5, "hex")
    IN IF StartsAt(s, 1, "16'h") /\ e > 5 /\ Ch(s, Len(s)) = ":" /\ SpanEnd(s, e, "space") = Len(s)
       THEN SubSeq(s, 5, e - 1) ELSE ""
VerilogEnd(s) ==
    IF StartsAt(s, 1, "16'h") /\ Len(s) > 4 /\ SpanEnd(s, 5, "hex") = Len(s) + 1 THEN From(s, 5) ELSE ""

\* the offset pair at lines jj and jj + 1: the line after what was read,
\* and the range when both lines were there
VerilogRange(ls, jj) ==
    IF jj <= Len(ls) /\ VerilogStart(Strip(ls[jj])) # ""
    THEN IF jj + 1 <= Len(ls) /\ VerilogEnd(Strip(ls[jj + 1])) # ""
         THEN [next |-> jj + 2, found |-> TRUE,
               range |-> "0x" \o VerilogStart(Strip(ls[jj])) \o " : 0x" \o VerilogEnd(Strip(ls[jj + 1]))]
         ELSE [next |-> jj + 1, found |-> FALSE, range |-> ""]
    ELSE [next |-> jj, found |-> FALSE, range |-> ""]

\* the further segments: "{a-b}" lines, each followed by its offset pair
RECURSIVE VerilogSegments(_, _, _, _)
VerilogSegments(ls, jj, indices, offsets) ==
    LET Pair(r) ==
            IF r.found THEN VerilogSegments(ls, r.next, Append(indices, Strip(ls[jj])), Append(offsets, r.range))
            ELSE [next |-> r.next, indices |-> Append(indices, Strip(ls[jj])), offsets |-> offsets]
    IN IF jj <= Len(ls) /\ IsIndexOnly(Strip(ls[jj]))
       THEN Pair(VerilogRange(ls, jj + 1))
       ELSE [next |-> jj, indices |-> indices, offsets |-> offsets]

RECURSIVE JoinSegments(_, _)
JoinSegments(indices, offsets) ==
    IF Len(indices) = 1 THEN indices[1] \o " " \o offsets[1]
    ELSE indices[1] \o " " \o offsets[1] \o "; " \o JoinSegments(Tail(indices), Tail(offsets))

\* the fourth pass: a row "{a-b} name TYPE description" followed by the
\* offsets of its segments on lines of their own
RECURSIVE FourthPass(_, _)
FourthPass(ls, j) ==
    LET Combined(m, r) ==
            IF Len(r.indices) > 1 /\ Len(r.offsets) = Len(r.indices)
            THEN <<JoinSegments(r.indices, r.offsets) \o " " \o m.name \o " " \o m.type
                   \o " " \o m.description \o NL>> \o FourthPass(ls, r.next)
            ELSE <<ls[j]>> \o FourthPass(ls, j + 1)
        First(m, r) ==
            Combined(m, VerilogSegments(ls, r.next, <<m.index>>, IF r.found THEN <<r.range>> ELSE <<>>))
        Line(m) == IF m.ok THEN First(m, VerilogRange(ls, j + 1)) ELSE <<ls[j]>> \o FourthPass(ls, j + 1)
    IN IF j > Len(ls) THEN <<>> ELSE Line(IndexedParts(ls[j], FALSE))

\* clean_pdf_text: what it writes for the lines it reads
clean_pdf_text(ls) ==
    LET Fourth(final) == FourthPass(final, 1)
        Third(cleaned, p2) == Fourth(ThirdPass(p2, cleaned, 1))
        Second(cleaned) == Third(cleaned, SecondPass(cleaned, 1))
    IN Second(FirstPass(ls, 1, "None", {}))

(***************************************************************************)
(* The Line Normalizer as a state machine (specification SpecNorm): the    *)
(* four passes of clean_pdf_text in turn, then the joining passes once     *)
(* more over the lines that were written.                                  *)
(***************************************************************************)
NormBlocks == <<
    <<"{0-3} name RW d", "0x10 : 0x20">>,
    <<"{4-5} 0x30 : 0x40">>,
    <<"{4-5}", "0x30", ":", "0x40">>,
    <<"0x30 :", "0x40">>,
    <<"{0-23} reg_name RW description", "16'hC00 :", "16'hCB8", "{24-63}", "16'h20C0 :", "16'h24B8">>,
    <<"{0-1} part_ RW part_cfg0-1", "0x37E0 cfg_reg0-1", ":", "0x37E8">>,
    <<"0x2080 route_table_ RW route", "       control_and_status">>,
    <<"{0-31} 0x3000 :    ra_rnsam RW x", "0x30F8">>,
    <<"{0-4} 0xF80 : 0xFA0 cmn_hns RW d", "", "{5-31} 0x6028 : 0x60F8">>,
    <<"[7:0] htg#{index*8 + 7}_num text", "      3}_hn rest">>,
    <<"Copyright (c) 2020 Arm Limited", "Non-Confidential", "Page 1 of 2", "Arm(r) CMN">>,
    <<"Table 1-1: a", "O<ff>set Name Type", "0x10 foo RW d", "O<ff>set Name Type">>,
    <<"plain text">>,
    <<"{0-4} 0xF80 : 0xFA0   cmn_hns RW d">> >>

\* readlines(): every line with its newline
RECURSIVE ReadLines(_)
ReadLines(ls) == IF ls = <<>> THEN <<>> ELSE <<Head(ls) \o NL>> \o ReadLines(Tail(ls))

RECURSIVE FlattenNorm(_)
FlattenNorm(choice) ==
    IF choice = <<>> THEN <<>> ELSE NormBlocks[Head(choice)] \o FlattenNorm(Tail(choice))

InitNorm ==
    /\ \E choice \in UNION {[1..n -> 1..Len(NormBlocks)] : n \in 0..MaxBlocks} :
          ghost = [input |-> choice, run |-> 1]
    /\ lines = ReadLines(FlattenNorm(ghost.input))
    /\ pc = "pass1"
    /\ i = 1
    /\ in_register_mode = FALSE
    /\ in_attr_mode = FALSE
    /\ current_table = ""
    /\ current_reg_name = ""
    /\ pending_addr = ""
    /\ rows = <<>>
    /\ log = <<>>
    /\ result = <<>>
    /\ NormIdle

\* the first pass: footers, page headers and repeated column headers
RemoveFooters ==
    /\ pc = "pass1"
    /\ cleaned_lines' = FirstPass(lines, 1, "None", {})
    /\ pc' = "pass2"
    /\ UNCHANGED <<pass2_lines, final_lines, pass4_lines>>
    /\ UNCHANGED <<lines, i, in_register_mode, in_attr_mode, current_table,
                   current_reg_name, pending_addr, rows, ghost, log, result>>

\* the second pass: split offset ranges
JoinSplitRanges ==
    /\ pc = "pass2"
    /\ pass2_lines' = SecondPass(cleaned_lines, 1)
    /\ pc' = "pass3"
    /\ UNCHANGED <<cleaned_lines, final_lines, pass4_lines>>
    /\ UNCHANGED <<lines, i, in_register_mode, in_attr_mode, current_table,
                   current_reg_name, pending_addr, rows, ghost, log, result>>

\* the third pass: wrapped names and offsets
JoinWrappedLines ==
    /\ pc = "pass3"
    /\ final_lines' = ThirdPass(pass2_lines, cleaned_lines, 1)
    /\ pc' = "pass4"
    /\ UNCHANGED <<cleaned_lines, pass2_lines, pass4_lines>>
    /\ UNCHANGED <<lines, i, in_register_mode, in_attr_mode, current_table,
                   current_reg_name, pending_addr, rows, ghost, log, result>>

\* the fourth pass, and f.writelines(pass4_lines)
JoinMultiSegment ==
    /\ pc = "pass4"
    /\ pass4_lines' = FourthPass(final_lines, 1)
    /\ pc' = "written"
    /\ UNCHANGED <<cleaned_lines, pass2_lines, final_lines>>
    /\ UNCHANGED <<lines, i, in_register_mode, in_attr_mode, current_table,
                   current_reg_name, pending_addr, rows, ghost, log, result>>

\* the joining passes are run again over the lines that were written: the
\* written lines are what the second pass starts from, and result keeps them
Rejoin ==
    /\ pc = "written"
    /\ ghost.run = 1
    /\ result' = pass4_lines
    /\ lines' = pass4_lines
    /\ cleaned_lines' = pass4_lines
    /\ pass2_lines' = <<>>
    /\ final_lines' = <<>>
    /\ pass4_lines' = <<>>
    /\ ghost' = [ghost EXCEPT !.run = 2]
    /\ pc' = "pass2"
    /\ UNCHANGED <<i, in_register_mode, in_attr_mode, current_table,
                   current_reg_name, pending_addr, rows, log>>

NextNorm == RemoveFooters \/ JoinSplitRanges \/ JoinWrappedLines \/ JoinMultiSegment \/ Rejoin

SpecNorm == InitNorm /\ [][NextNorm]_vars

(***************************************************************************)
(* Claims about the Line Normalizer (specification SpecNorm)               *)
(***************************************************************************)
\* C2: the joining passes are idempotent: run over the lines that
\* clean_pdf_text wrote, they write those same lines again; no line is
\* joined, dropped or rewritten.
C2_JoiningPassesIdempotent ==
    pc = "written" /\ ghost.run = 2 => pass4_lines = result

(***************************************************************************)
(* Further claims about the register pipeline (specification Spec)         *)
(***************************************************************************)
\* a legitimate Reserved name: "Reserved" itself or "Reserved_<suffix>"
IsLegitimateReserved(name) == name = "Reserved" \/ StartsWith(name, "Reserved_")

\* C11: a register row named "Reserved" or "Reserved_<suffix>" after the
\* repair of names (a repaired "ReservedReserved" included) is in the final
\* register output of extract, also when it is the only row at its
\* (table, offset).
C11_ReservedRowsKept ==
    pc = "done" =>
        \A k \in 1..Len(result) :
            IsLegitimateReserved(result[k].name) =>
                \E m \in 1..Len(rows) : rows[m] = result[k]

\* the (table, offset, name) triple of a register row
RegKey(row) == <<row.table, row.offset, row.name>>

\* C12: the de-duplication of extract leaves no two register rows with the
\* same (table, offset, name), and the row that survives for a triple is
\* the first row with that triple in document order.
C12_FirstOfEachTripleSurvives ==
    [][pc = "dedup" /\ pc' = "done" =>
          /\ \A a, b \in 1..Len(rows') : RegKey(rows'[a]) = RegKey(rows'[b]) => a = b
          /\ \A k \in 1..Len(rows) :
                (\A m \in 1..(k - 1) : RegKey(rows[m]) # RegKey(rows[k])) =>
                    \E a \in 1..Len(rows') : rows'[a] = rows[k]
          /\ \A a \in 1..Len(rows') : \E k \in 1..Len(rows) : RegKey(rows[k]) = RegKey(rows'[a])]_vars

\* C12 witness: two rows with one triple and different types went into the
\* de-duplication, and the first of them is the one row left.
C12_Witness ==
    /\ pc = "done"
    /\ \E j, k \in 1..Len(result) :
          /\ j < k /\ RegKey(result[j]) = RegKey(result[k]) /\ result[j].type # result[k].type
          /\ Len(rows) = 1 /\ rows[1] = result[j]

(***************************************************************************)
(* Further claims about the attribute pipeline (specification SpecAttr)    *)
(***************************************************************************)
\* the (table, bits, field_name) triple of an attribute row
AttrKey(row) == <<row.table, row.bits, row.field_name>>

\* C13: after the de-duplication of extract no two attribute rows have the
\* same table, bits and field_name.
C13_AttrKeyIdentifiesRow ==
    pc = "attr_done" =>
        \A a, b \in 1..Len(rows) : AttrKey(rows[a]) = AttrKey(rows[b]) => a = b

(***************************************************************************)
(* extract runs both parsers and cleans both row lists: specification      *)
(* SpecExtract is the register pipeline and the attribute pipeline side by *)
(* side, each on its own bounded inputs.                                   *)
(***************************************************************************)
InitExtract == Init \/ InitAttr

NextExtract == Next \/ NextAttr

SpecExtract == InitExtract /\ [][NextExtract]_vars

\* C14: no row that clean_rows returns, register or attribute, has a name
\* that is a Reserved concatenation artifact ("Reserved", digits at once,
\* a letter later): neither clean_reserved_name nor the stripping of an
\* access token turns a kept name into one.
C14_NoReservedArtifactAfterCleanRows ==
    /\ pc = "filter" => \A k \in 1..Len(rows) : ~is_reserved_concatenation_artifact(rows[k].name)
    /\ pc = "attr_dedup" =>
          \A k \in 1..Len(rows) : ~is_reserved_concatenation_artifact(rows[k].field_name)

\* C14 witness: a parser emitted a row whose name is an artifact, and
\* clean_rows has run.
C14_Witness ==
    \/ /\ pc = "filter"
       /\ \E k \in 1..Len(log) : \E r \in 1..Len(log[k].emitted) :
             log[k].emitted[r].name = "Reserved12ab"
    \/ /\ pc = "attr_dedup"
       /\ \E r \in 1..Len(result) : result[r].field_name = "Reserved12ab"

\* the match of the row shape (1-5) that a line takes
ShapeMatch(s) ==
    IF multi_segment_match(s).ok THEN multi_segment_match(s)
    ELSE IF array_match(s).ok THEN array_match(s)
    ELSE IF range_match(s).ok THEN range_match(s)
    ELSE IF offset_plus_match(s).ok THEN offset_plus_match(s)
    ELSE simple_match(s)

ShapeBranches == {"multi_segment", "array", "range", "offset_plus", "simple"}

HasUnrecognizedType(entry) ==
    /\ entry.branch \in ShapeBranches
    /\ ShapeMatch(lines[entry.line]).type # ""
    /\ ~is_type_token(Strip(ShapeMatch(lines[entry.line]).type))

\* C15: a line of shapes 1-5 whose type slot holds a token that is not an
\* access token still yields its row(s), with type "-" and with a description
\* that is that token followed by the remaining text of the line and nothing
\* else.
C15_UnrecognizedTypePrepended ==
    \A k \in 1..Len(log) :
        HasUnrecognizedType(log[k]) =>
            /\ log[k].emitted # <<>>
            /\ \A r \in 1..Len(log[k].emitted) :
                  /\ log[k].emitted[r].type = "-"
                  /\ log[k].emitted[r].description =
                        Strip(ShapeMatch(lines[log[k].line]).type \o " "
                              \o Strip(ShapeMatch(lines[log[k].line]).rest))

\* the positions of the two scans, and those after a scan has returned
ScanPositions ==
    {"parse", "heading", "outside", "label", "detail_section", "multi_segment", "array",
     "range", "offset_plus", "simple", "offset_name", "accumulate", "section", "name",
     "other", "attr", "attr_heading", "attr_outside", "attr_label", "attr_sub_bit",
     "attr_line", "attr_bits_sub_bit", "attr_bits", "attr_other"}

Returned == {"split", "clean", "filter", "spurious", "dedup", "done",
             "attr_clean", "attr_dedup", "attr_done"}

\* control moving on inside a scan: every step of a scan changes pc
ScanStep == pc \in ScanPositions /\ pc' \in (ScanPositions \cup Returned) \ {pc}

\* the interpreter leaves no statement of a scan pending: while a scan has not
\* returned, its next step is taken
SpecTerminate == InitExtract /\ [][NextExtract]_vars /\ WF_pc(ScanStep)

\* C16: parse_register_tables and parse_attribute_tables come to their return
\* on every input, and every iteration of their scanning loops moves the
\* cursor forward or, keeping it, leaves the table mode.
C16_ParsersTerminate ==
    /\ <>(pc \in Returned)
    /\ [][pc # "parse" /\ pc' = "parse" =>
            \/ i' > i
            \/ i' = i /\ in_register_mode /\ ~in_register_mode']_vars
    /\ [][pc # "attr" /\ pc' = "attr" => i' > i]_vars

\* the register scan has returned after an iteration that kept the cursor and
\* left the table, and after one whose inner loops took it over several lines
C16_Witness ==
    /\ pc = "split"
    /\ \E k \in 1..(Len(log) - 1) :
          log[k].branch = "detail_section" /\ log[k + 1].line = log[k].line
    /\ \E k \in 1..(Len(log) - 1) :
          log[k].branch \in {"name", "offset_name"} /\ log[k + 1].line > log[k].line + 1

(***************************************************************************)
(* The normalizer on a segmented record whose offsets follow its first     *)
(* line: "{a-b} name TYPE desc", a split range, then groups of a lone      *)
(* "{c-d}" and a split range.                                              *)
(***************************************************************************)
MaxGroups == 8

SegmentIndices ==
    <<"{0-1}", "{2-3}", "{4-5}", "{6-7}", "{8-9}", "{10-11}", "{12-13}", "{14-15}",
      "{16-17}", "{18-19}", "{20-21}">>
SegmentStarts == <<"C00", "D00", "E00", "F00", "1C00", "1D00", "1E00", "1F00", "2C00", "2D00", "2E00">>
SegmentEnds == <<"CB8", "DB8", "EB8", "FB8", "1CB8", "1DB8", "1EB8", "1FB8", "2CB8", "2DB8", "2EB8">>
RecordRest == "foo_reg RW some description"

\* the split range of segment k, and the range once joined
SplitRange(prefix, k) == <<prefix \o SegmentStarts[k] \o " :", prefix \o SegmentEnds[k]>>
JoinedRange(prefix, k) == prefix \o SegmentStarts[k] \o " : " \o prefix \o SegmentEnds[k]

RECURSIVE GroupLines(_, _, _)
GroupLines(prefix, k, last) ==
    IF k > last THEN <<>>
    ELSE <<SegmentIndices[k]>> \o SplitRange(prefix, k) \o GroupLines(prefix, k + 1, last)

\* the record with n groups after its first segment, as the text has it
SplitRecord(prefix, n) ==
    <<SegmentIndices[1] \o " " \o RecordRest>> \o SplitRange(prefix, 1)
    \o GroupLines(prefix, 2, n + 1)

RECURSIVE JoinedSegments(_, _, _)
JoinedSegments(prefix, k, last) ==
    SegmentIndices[k] \o " " \o JoinedRange(prefix, k)
    \o (IF k = last THEN "" ELSE "; " \o JoinedSegments(prefix, k + 1, last))

\* the one line the record is to become
JoinedRecord(prefix, n) == JoinedSegments(prefix, 1, n + 1) \o " " \o RecordRest

ContextLines == {<<>>, <<"plain text">>, <<"0x100 other RW d">>}

InitCompose ==
    /\ \E n \in 1..MaxGroups : \E prefix \in {"0x", "16'h"} :
       \E before \in {<<>>, <<"plain text">>} : \E after \in ContextLines :
          /\ ghost = [input |-> <<>>, run |-> 1, groups |-> n, prefix |-> prefix,
                      before |-> Len(before)]
          /\ lines = ReadLines(before \o SplitRecord(prefix, n) \o after)
    /\ pc = "pass1"
    /\ i = 1
    /\ in_register_mode = FALSE
    /\ in_attr_mode = FALSE
    /\ current_table = ""
    /\ current_reg_name = ""
    /\ pending_addr = ""
    /\ rows = <<>>
    /\ log = <<>>
    /\ result = <<>>
    /\ NormIdle

SpecCompose == InitCompose /\ [][NextNorm]_vars

\* C17: a segmented record whose first line is followed by a split range and
\* by any number of groups of a lone index and a split range is written by
\* clean_pdf_text as exactly one line, the joined segments followed by the
\* rest of the first line, and that line has the reconstructor's
\* multi-segment shape.
C17_SplitRecordBecomesOneLine ==
    pc = "written" /\ ghost.run = 1 =>
        /\ Len(pass4_lines) = Len(lines) - 3 * (ghost.groups + 1) + 1
        /\ pass4_lines[ghost.before + 1] = JoinedRecord(ghost.prefix, ghost.groups) \o NL
        /\ multi_segment_match(JoinedRecord(ghost.prefix, ghost.groups)).ok

\* the register-summary state of the line sequence before line n: the last
\* table heading or detailed-description section line among lines 1..n-1
\* decides it ("" when outside a summary table, else the heading)
RECURSIVE SummaryTableBefore(_, _)
SummaryTableBefore(ls, n) ==
    IF n <= 1 THEN ""
    ELSE IF is_heading(ls[n - 1])
         THEN (IF Contains(Lower(ls[n - 1]), "register summary") THEN ls[n - 1] ELSE "")
    ELSE IF IsDetailSection(ls[n - 1]) THEN ""
    ELSE SummaryTableBefore(ls, n - 1)

\* C18: a register row is emitted only inside a register-summary table, that
\* is after a heading containing "register summary" with no other heading and
\* no detailed-description section line since, and its table is that heading.
C18_RowsOnlyInsideSummaryTable ==
    \A k \in 1..Len(log) : \A r \in 1..Len(log[k].emitted) :
        /\ SummaryTableBefore(lines, log[k].line) # ""
        /\ log[k].emitted[r].table = SummaryTableBefore(lines, log[k].line)

\* C19: the buffer of pending address tokens is empty right after every
\* iteration that committed a row and right after every heading and
\* section-heading line.
C19_BufferEmptyAfterCommit ==
    /\ pc = "parse" /\ log # <<>> /\ log[Len(log)].emitted # <<>> => pending_addr = ""
    /\ pc = "parse" /\ log # <<>> /\ log[Len(log)].branch \in {"heading", "section"} =>
          pending_addr = ""

\* C20: inside a register-summary table every line made only of address
\* tokens, a joined range "ADDR : ADDR" included, is appended to the buffer of
\* pending address tokens, and the next name line commits one row whose
\* offset is the normalized buffer.
C20_AddressLinesAccumulate ==
    /\ \A k \in 1..Len(log) :
          log[k].mode /\ is_addr_line(lines[log[k].line]) =>
              /\ log[k].branch = "accumulate"
              /\ Strip(log[k].pending \o " " \o lines[log[k].line])
                    = (IF k = Len(log) THEN pending_addr ELSE log[k + 1].pending)
    /\ \A k \in 1..Len(log) :
          log[k].branch = "name" /\ Strip(log[k].pending) # "" =>
              /\ Len(log[k].emitted) = 1
              /\ log[k].emitted[1].offset = normalize_addr(log[k].pending)

\* the first of the seven row shapes, in their priority order, that a line
\* has ("none" when it has none of them)
FirstShape(s) ==
    IF multi_segment_match(s).ok THEN "multi_segment"
    ELSE IF array_match(s).ok THEN "array"
    ELSE IF range_match(s).ok THEN "range"
    ELSE IF offset_plus_match(s).ok THEN "offset_plus"
    ELSE IF simple_match(s).ok THEN "simple"
    ELSE IF offset_name_match(s).ok THEN "offset_name"
    ELSE IF IsAddrContent(s) THEN "accumulate"
    ELSE "none"

\* the iteration of the scan that consumed line n
IterationOf(n) ==
    CHOOSE k \in 1..Len(log) :
        log[k].line <= n /\ (k = Len(log) \/ log[k + 1].line > n)

\* line n lies inside a register-summary table: the iteration that consumed
\* it ran in register mode and the line is no heading, label or section line
InRegisterTable(n) ==
    /\ log[IterationOf(n)].mode
    /\ ~is_heading(lines[n]) /\ ~IsSkippedLabel(lines[n]) /\ ~IsDetailSection(lines[n])

\* C21: inside a register-summary table every line that has one of the row
\* shapes is handled by the first shape, in priority order, that it has, and
\* by that one only: no line yields rows from two shapes.
C21_FirstShapeWins ==
    pc = "split" =>
        \A n \in 2..Len(lines) :
            InRegisterTable(n) /\ FirstShape(lines[n]) # "none" =>
                /\ \E k \in 1..Len(log) :
                      log[k].line = n /\ log[k].branch = FirstShape(lines[n])
                /\ \A k, m \in 1..Len(log) :
                      log[k].line = n /\ log[m].line = n /\ k # m =>
                          log[k].emitted = <<>> \/ log[m].emitted = <<>>

\* the first line from j on that is no page-break marker and no column-header
\* label (Len(ls) + 1 when there is none)
RECURSIVE NextNonBoilerplate(_, _)
NextNonBoilerplate(ls, j) ==
    IF j > Len(ls) \/ ~IsSkippedLabel(ls[j]) THEN j ELSE NextNonBoilerplate(ls, j + 1)

\* C22: the row of an address-and-name line (shape 6) has as type the access
\* token on the next line that is no page-break marker and no column-header
\* label, and its description is collected from the lines after that token;
\* when that next line is no access token the type is "-".
C22_TypeFromNextLine ==
    \A k \in 1..Len(log) :
        log[k].branch = "offset_name" =>
            LET j == NextNonBoilerplate(lines, log[k].line + 1)
                row == log[k].emitted[1]
                d == DescScan(lines, j + 1, <<>>)
            IN IF j <= Len(lines) /\ is_type_token(lines[j])
               THEN /\ row.type = lines[j]
                    /\ row.description =
                          (IF d.parts # <<>> THEN Strip(Join(d.parts, " ")) ELSE row.name)
               ELSE row.type = "-"

\* the cursor after iteration k of the scan
CursorAfter(k) == IF k = Len(log) THEN i ELSE log[k + 1].line

\* C23: in the fallback path (shape 7) every line between the name, with its
\* continuation fragments, and the line that ends the row is the row's type
\* token or is part of the row's description, unless it is a page-break
\* marker, a column-header label or a boilerplate sentence.
C23_NoLineLostAfterName ==
    pc = "parse" =>
        \A k \in 1..Len(log) :
            log[k].branch = "name" /\ log[k].emitted # <<>> =>
                \A n \in NameScan(lines, log[k].line + 1, lines[log[k].line]).i
                         ..(CursorAfter(k) - 1) :
                    \/ IsSkippedLabel(lines[n]) \/ boilerplate_sentence_re(lines[n])
                    \/ is_type_token(lines[n]) /\ lines[n] = log[k].emitted[1].type
                    \/ Contains(log[k].emitted[1].description, Strip(lines[n]))
                    \/ log[k].emitted[1].description = "-"

\* the part of a longer access token in front of the token typ that ends it
LongerTokenHeads(typ) ==
    {Upto(t, Len(t) - Len(typ)) : t \in {u \in TYPE_TOKENS : Len(u) > Len(typ) /\ EndsWith(u, typ)}}

\* C24: the type of an attribute row of the single-line path is the whole
\* access token at the rightmost position of its text: where a shorter token
\* ends a longer one ("W1C" in "R/W1C") the longer one is the type, so the
\* description does not end with the head of an access token.
C24_LongestTokenAtRightmostPosition ==
    \A k \in 1..Len(log) :
        log[k].branch = "attr_line" =>
            \A r \in 1..Len(log[k].emitted) :
                /\ log[k].emitted[r].type \in TYPE_TOKENS \cup {"-"}
                /\ \A head \in LongerTokenHeads(log[k].emitted[r].type) :
                      ~EndsWith(log[k].emitted[r].description, head)

\* the last line of the maximal run of continuation lines after line n
RunEnd(n) ==
    CHOOSE e \in n..Len(lines) :
        /\ \A m \in (n + 1)..e : IsContinuationLine(lines[m])
        /\ e = Len(lines) \/ ~IsContinuationLine(lines[e + 1])

\* line n and the lines of its run written as one line, space-separated
RunOnOneLine(n) ==
    lines[n] \o " " \o Join([m \in 1..(RunEnd(n) - n) |-> Strip(lines[n + m])], " ")

\* C25: after a [bits] field_name line the maximal run of continuation
\* lines (non-empty, not starting with "[", no heading, column header or
\* page-break marker, indented 25 columns or more) is merged in order,
\* space-separated, into the text of the row, the row is the one the merged
\* text gives on a single line, and the next line the main loop takes is the
\* line that ended the run.
C25_ContinuationRunMergedOnce ==
    \A k \in 1..Len(log) :
        log[k].branch = "attr_line" =>
            /\ CursorAfter(k) = RunEnd(log[k].line) + 1
            /\ RunEnd(log[k].line) > log[k].line =>
                  \E row \in {AttrLineStep(<<RunOnOneLine(log[k].line)>>, 1, "", "").emitted} :
                     /\ Len(row) = Len(log[k].emitted)
                     /\ \A r \in 1..Len(row) :
                           /\ row[r].bits = log[k].emitted[r].bits
                           /\ row[r].field_name = log[k].emitted[r].field_name
                           /\ row[r].description = log[k].emitted[r].description
                           /\ row[r].type = log[k].emitted[r].type
                           /\ row[r].reset = log[k].emitted[r].reset

C25_Witness ==
    \E k \in 1..(Len(log) - 1) :
        /\ log[k].branch = "attr_line"
        /\ log[k].emitted # <<>>
        /\ RunEnd(log[k].line) > log[k].line
        /\ log[k + 1].line = RunEnd(log[k].line) + 1
        /\ Len(lines[log[k + 1].line]) - Len(LStrip(lines[log[k + 1].line])) = CONTINUATION_INDENT - 1
        /\ Contains(log[k].emitted[1].description, "more text")

(***************************************************************************)
(* Claims about split_concatenated_registers (specification SpecSplit)     *)
(***************************************************************************)
\* descriptions of parsed register rows: without an embedded register, with
\* one after some text, with one at the start, with two, with a name that
\* carries the "_ " artifact, with a longer access token, empty
SplitDescriptions ==
    <<"plain", "first 0x108 reg_b RO second", "0x108 reg_b RO second",
      "first 0x108 reg_b RO second 0x110 reg_c RW third",
      "x 0x108 reg_ b RO reg_b second", "x 0x108 reg_b R/W1C y", "">>

GivenRows ==
    [k \in 1..Len(ghost) |->
        Row("Table 1-1", "0x100", "foo", "RW", SplitDescriptions[ghost[k]])]

InitSplit ==
    /\ ghost \in UNION {[1..n -> 1..Len(SplitDescriptions)] : n \in 1..MaxBlocks}
    /\ rows = GivenRows
    /\ pc = "split"
    /\ lines = <<>>
    /\ i = 1
    /\ in_register_mode = FALSE
    /\ in_attr_mode = FALSE
    /\ current_table = ""
    /\ current_reg_name = ""
    /\ pending_addr = ""
    /\ log = <<>>
    /\ result = <<>>
    /\ NormIdle

SpecSplit == InitSplit /\ [][SplitConcatenated]_vars

\* the rows the claim describes for one row: the row with the text before the
\* first embedded match, then one row per match; the description of a new
\* row is left open (new = TRUE)
ClaimedRowsOf(row, matches) ==
    IF matches = <<>> THEN <<[row |-> row, new |-> FALSE]>>
    ELSE <<[row |-> [row EXCEPT !.description = Strip(Upto(row.description, matches[1].start - 1))],
            new |-> FALSE]>>
         \o [k \in 1..Len(matches) |->
                [row |-> Row(row.table, matches[k].offset, matches[k].name, matches[k].type, ""),
                 new |-> TRUE]]

RECURSIVE ClaimedRows(_)
ClaimedRows(rs) ==
    IF rs = <<>> THEN <<>>
    ELSE ClaimedRowsOf(Head(rs), RegisterMatches(Head(rs).description, 1)) \o ClaimedRows(Tail(rs))

\* C26: split_concatenated_registers gives, row by row and in order, the row
\* with its description cut to the text before the first embedded
\* ADDR name TYPE match, then one row per match with the match's offset,
\* name and type and the row's table; a row without a match is unchanged.
C26_SplitGivesRowThenMatches ==
    pc = "clean" =>
        \E claimed \in {ClaimedRows(GivenRows)} :
           /\ Len(rows) = Len(claimed)
           /\ \A k \in 1..Len(claimed) :
                 IF claimed[k].new
                 THEN /\ rows[k].table = claimed[k].row.table
                      /\ rows[k].offset = claimed[k].row.offset
                      /\ rows[k].name = claimed[k].row.name
                      /\ rows[k].type = claimed[k].row.type
                 ELSE rows[k] = claimed[k].row

(***************************************************************************)
(* Further claims about the Line Normalizer (specification SpecNorm)       *)
(***************************************************************************)
\* a rule of the third pass finds its continuation after line j: the rule
\* applies and takes more than line j itself
LookaheadMatches(ls, cleaned, j) ==
    \E r \in {JoinFieldName(ls, j), JoinOffsetAfter(ls, j), SkipNameContinuation(ls, cleaned, j),
              JoinArrayEnd(ls, cleaned, j), JoinIndexOffset(ls, j), JoinSecondRange(ls, j)} :
        r.ok /\ r.next > j + 1

\* C27: lines for which no join rule of the third pass finds a continuation
\* are written by the pass character for character, once and in order: when
\* no line of the pass's input has a matching lookahead, its output is its
\* input, also for a line that matches the head of a join pattern.
C27_UnmatchedLinesUnchanged ==
    pc = "written" /\ ghost.run = 1 =>
        ((\A j \in 1..Len(pass2_lines) : ~LookaheadMatches(pass2_lines, cleaned_lines, j))
            => final_lines = pass2_lines)

\* the rule the third pass applies at line j, in the order of its tests, and
\* the line the pass goes to next
RuleAt(ls, cleaned, j) ==
    LET Try(rules) ==
            IF \E k \in 1..Len(rules) : rules[k].r.ok
            THEN rules[MinOf({k \in 1..Len(rules) : rules[k].r.ok})]
            ELSE [rule |-> "none", r |-> Joined(<<ls[j]>>, j + 1)]
    IN Try(<<[rule |-> "field_name", r |-> JoinFieldName(ls, j)],
             [rule |-> "offset_after", r |-> JoinOffsetAfter(ls, j)],
             [rule |-> "name_continuation", r |-> SkipNameContinuation(ls, cleaned, j)],
             [rule |-> "array_end", r |-> JoinArrayEnd(ls, cleaned, j)],
             [rule |-> "index_offset", r |-> JoinIndexOffset(ls, j)],
             [rule |-> "second_range", r |-> JoinSecondRange(ls, j)]>>)

\* the lines the third pass stops at
RECURSIVE Visited(_, _, _)
Visited(ls, cleaned, j) ==
    IF j > Len(ls) THEN {} ELSE {j} \cup Visited(ls, cleaned, RuleAt(ls, cleaned, j).r.next)

\* C28: when the wrapped-name rule or the array-offset rule of the third
\* pass removes the line after the current one, the line it tested (and
\* merged) is that line: the line after the current one in the list the
\* pass iterates over.
C28_RemovedLineIsTestedLine ==
    pc \in {"pass4", "written"} =>
        \A j \in Visited(pass2_lines, cleaned_lines, 1) :
            RuleAt(pass2_lines, cleaned_lines, j).rule \in {"name_continuation", "array_end"} =>
                /\ j + 1 <= Len(pass2_lines)
                /\ cleaned_lines[j + 1] = pass2_lines[j + 1]

(***************************************************************************)
(* Further claims about the attribute pipeline (specification SpecAttr)    *)
(***************************************************************************)
\* C29: the register_name of every attribute row is the register named in
\* the title of the row's own table; under a heading that names no register
\* the rows have no register name, not the one of an earlier table.
C29_RegisterNameFromOwnTable ==
    \A k \in 1..Len(rows) : rows[k].register_name = HeadingRegName(rows[k].table)

(***************************************************************************)
(* The order of the last two stages of extract (specification Spec)        *)
(***************************************************************************)
\* C30: the removal of spurious Reserved rows followed by the
\* de-duplication on (table, offset, name), as extract runs them, leaves the
\* rows that the de-duplication followed by the removal leaves: duplicates
\* of a Reserved row do not decide whether it survives.
C30_SuppressionCommutesWithDedup ==
    pc = "done" => rows = remove_spurious_reserved_entries(DropDuplicateKeys(result))

====
